---- MODULE Spec2Model ----
(***************************************************************************)
(* A model of the Ethereum ABI codec of rust-eth-abi: the type grammar     *)
(* (common.rs), the value model (codec/), the encoder (encode.rs) and the  *)
(* decoder (decode.rs).  Type strings are TLA+ strings, byte strings are   *)
(* sequences of 0..255, a Result is a record that is either Ok(val) or     *)
(* Err(kind, info); a Rust panic is the Err kind "panic".                  *)
(*                                                                         *)
(* A function of the code that binds intermediate results (let x = f()?;)  *)
(* is written as a chain of operators, each taking the results bound so    *)
(* far as parameters.                                                      *)
(***************************************************************************)
EXTENDS Integers, Sequences, FiniteSets, TLC

VARIABLES
    op,          \* the public function the caller has invoked ("idle" before)
    type_strs,   \* the caller's list of type strings
    values,      \* the caller's list of values
    signature,   \* the function signature of a *_with_signature call
    stack,       \* the frames of the abi_encode / encode_array calls in progress
    result,      \* the Result of the encoder, once it has returned
    decoded      \* the Result of the decoder, once it has returned

vars == <<op, type_strs, values, signature, stack, result, decoded>>

(***************************************************************************)
(* Results.                                                                *)
(***************************************************************************)
Ok(v) == [ok |-> TRUE, val |-> v, err |-> "", info |-> <<>>]
Err(kind, i) == [ok |-> FALSE, val |-> <<>>, err |-> kind, info |-> i]
Panic == Err("panic", <<>>)

\* the variants of CodecError
CodecErrorKinds ==
    {"InvalidArray", "InvalidTuple", "InvalidFunctionSignature", "InvalidTypeAndValue",
     "LengthsMismatch", "InvalidValueLength", "UnsupportedType", "InvalidSelector"}
NoRet == [ok |-> FALSE, val |-> <<>>, err |-> "none", info |-> <<>>]

(***************************************************************************)
(* Strings: the str methods the grammar uses.  Indices are 0-based as in   *)
(* Rust, -1 standing for None.  A string is the sequence of its chars; the *)
(* byte index Rust's str methods count in is the char index but behind a   *)
(* character of more than one byte.                                        *)
(***************************************************************************)
CharAt(s, i) == SubSeq(s, i + 1, i + 1)

\* &s[a..b] for 0 <= a <= b <= len
Slice(s, a, b) == SubSeq(s, a + 1, b)

Positions(s, c) == {i \in 0..(Len(s) - 1) : CharAt(s, i) = c}

\* t.chars().filter(|c| *c == ch).count()
Count(s, c) == Cardinality(Positions(s, c))

MinOf(S) == IF S = {} THEN -1 ELSE CHOOSE i \in S : \A j \in S : i <= j
MaxOf(S) == IF S = {} THEN -1 ELSE CHOOSE i \in S : \A j \in S : i >= j

\* t.find(c), t.rfind(c)
Find(s, c) == MinOf(Positions(s, c))
RFind(s, c) == MaxOf(Positions(s, c))

Contains(s, sub) ==
    \E i \in 0..(Len(s) - Len(sub)) : Slice(s, i, i + Len(sub)) = sub

StartsWith(s, c) == Len(s) >= 1 /\ CharAt(s, 0) = c
EndsWith(s, c) == Len(s) >= 1 /\ CharAt(s, Len(s) - 1) = c

RECURSIVE Trim(_)
Trim(s) ==
    IF StartsWith(s, " ") THEN Trim(Slice(s, 1, Len(s)))
    ELSE IF EndsWith(s, " ") THEN Trim(Slice(s, 0, Len(s) - 1))
    ELSE s

\* the character of the model that is not ASCII, two bytes long in UTF-8
NonAscii == "é"

\* the byte index of the char at index k of s (of the end of s for k = Len(s))
ByteOffset(s, k) == k + Cardinality({j \in 0..(k - 1) : CharAt(s, j) = NonAscii})

\* t.len(): the length of s in bytes
ByteLen(s) == ByteOffset(s, Len(s))

\* s.is_char_boundary(b)
IsCharBoundary(s, b) == \E k \in 0..Len(s) : ByteOffset(s, k) = b

\* &s[a..b] for the byte indices a <= b, both char boundaries of s
ByteSlice(s, a, b) ==
    Slice(s, CHOOSE k \in 0..Len(s) : ByteOffset(s, k) = a,
             CHOOSE k \in 0..Len(s) : ByteOffset(s, k) = b)

\* s.split(c).next().unwrap(): the text before the first c, found at index at
Before(s, at) == IF at = -1 THEN s ELSE Slice(s, 0, at)
SplitFirst(s, c) == Before(s, Find(s, c))

Digits == <<"0", "1", "2", "3", "4", "5", "6", "7", "8", "9">>
IsDigit(c) == \E d \in 1..10 : Digits[d] = c
DigitVal(c) == (CHOOSE d \in 1..10 : Digits[d] = c) - 1

RECURSIVE DecVal(_, _)
DecVal(s, acc) ==
    IF s = "" THEN acc ELSE DecVal(Slice(s, 1, Len(s)), acc * 10 + DigitVal(CharAt(s, 0)))

ParseDigits(body) ==
    IF body # "" /\ \A i \in 0..(Len(body) - 1) : IsDigit(CharAt(body, i))
    THEN Ok(DecVal(body, 0))
    ELSE Err("ParseIntError", <<>>)

\* str::parse::<usize>(): an optional '+' and at least one decimal digit
ParseUsize(s) == ParseDigits(IF StartsWith(s, "+") THEN Slice(s, 1, Len(s)) ELSE s)

\* format!("{}", n) of an unsigned number
RECURSIVE Dec(_)
Dec(n) == IF n < 10 THEN Digits[n + 1] ELSE Dec(n \div 10) \o Digits[(n % 10) + 1]

RECURSIVE Join(_, _)
Join(strs, sep) ==
    IF Len(strs) = 0 THEN ""
    ELSE IF Len(strs) = 1 THEN strs[1]
    ELSE strs[1] \o sep \o Join(Tail(strs), sep)

\* the elements of a finite set of numbers in increasing order
SortedSeq(S) ==
    [k \in 1..Cardinality(S) |-> CHOOSE p \in S : Cardinality({q \in S : q < p}) = k - 1]

(***************************************************************************)
(* The type grammar (common.rs).                                           *)
(***************************************************************************)
\* is_dynamic
is_dynamic(t) == Contains(t, "[]") \/ Contains(t, "bytes") \/ Contains(t, "string")

\* is_array from line 14 on, the brackets being balanced and present:
\* parsed is the parse of the text between the last '[' and the last ']'
IsArrayAt(t, open_brackets_index, close_brackets_index, close_parenthesis_index, parsed) ==
    IF \/ open_brackets_index < close_parenthesis_index
       \/ close_brackets_index < close_parenthesis_index
    THEN Ok(<<FALSE, 0>>)
    ELSE IF close_brackets_index > open_brackets_index + 1
    THEN IF parsed.ok THEN Ok(<<TRUE, parsed.val>>) ELSE Err("InvalidArray", <<t>>)
    ELSE Ok(<<TRUE, 0>>)

IsArrayCounted(t, count_open_brackets, count_close_brackets) ==
    IF count_open_brackets # count_close_brackets THEN Err("InvalidArray", <<t>>)
    ELSE IF count_open_brackets > 0
    THEN IsArrayAt(t, RFind(t, "["), RFind(t, "]"), RFind(t, ")"),
                   ParseUsize(Slice(t, RFind(t, "[") + 1, RFind(t, "]"))))
    ELSE Ok(<<FALSE, 0>>)

\* is_array: Ok(<<is_array_type, size>>) or InvalidArray
is_array(t) == IsArrayCounted(t, Count(t, "["), Count(t, "]"))

\* depth when the loop of split_parameter_types reaches the character
\* chars[p]: the '(' minus the ')' among chars[start_idx..p]
DepthAt(t, start_idx, p) ==
    Cardinality({j \in start_idx..(p - 1) : CharAt(t, j) = "("})
        - Cardinality({j \in start_idx..(p - 1) : CharAt(t, j) = ")"})

\* the indices in chars of the commas the loop splits at, in increasing order
SplitPoints(t, start_idx, end_idx) ==
    SortedSeq({p \in start_idx..(end_idx - 1) :
                  CharAt(t, p) = "," /\ DepthAt(t, start_idx, p) = 0})

\* the parts the loop and the lines after it cut t into: from start (the
\* index after the previous split comma) to the next split comma or to
\* end_idx, trimmed; the indices found in chars are used as byte indices
Parts(t, start_idx, end_idx, commas) ==
    [k \in 1..(Len(commas) + 1) |->
        Trim(ByteSlice(t, IF k = 1 THEN start_idx ELSE commas[k - 1] + 1,
                          IF k > Len(commas) THEN end_idx ELSE commas[k]))]

\* the byte indices the slices of t are cut at
SliceCuts(start_idx, end_idx, commas) ==
    {start_idx, end_idx} \cup {commas[k] : k \in 1..Len(commas)}
        \cup {commas[k] + 1 : k \in 1..Len(commas)}

\* if !part.is_empty() { result.push(part) }
Pushed(parts, kept) == [j \in 1..Len(kept) |-> parts[kept[j]]]
NonEmpty(parts) == Pushed(parts, SortedSeq({k \in 1..Len(parts) : parts[k] # ""}))

\* the slices of the loop and of the last part: a slice of t that is not cut
\* at a char boundary panics
SplitAt(t, start_idx, end_idx, commas) ==
    IF \E b \in SliceCuts(start_idx, end_idx, commas) : ~IsCharBoundary(t, b) THEN Panic
    ELSE Ok(NonEmpty(Parts(t, start_idx, end_idx, commas)))

\* chars[start_idx..end_idx] panics when end_idx, a number of bytes, is more
\* than the number of chars
SplitBetween(t, start_idx, end_idx) ==
    IF end_idx > Len(t) THEN Panic
    ELSE SplitAt(t, start_idx, end_idx, SplitPoints(t, start_idx, end_idx))

\* split_parameter_types from line 75 on; wrapped: t starts with '(' and
\* ends with ')'
SplitWrapped(t, wrapped) ==
    SplitBetween(t, IF wrapped THEN 1 ELSE 0,
                 IF wrapped THEN ByteLen(t) - 1 ELSE ByteLen(t))

\* split_parameter_types: Ok(the parts), or the panic of a slice
split_parameter_types(t) == SplitWrapped(t, StartsWith(t, "(") /\ EndsWith(t, ")"))

\* &t[open + 1..close] with open = t.find('(').unwrap() and close =
\* t.rfind(')').unwrap(): the unwraps and the slice panic when a parenthesis
\* is missing or the range is reversed
InnerSliceAt(t, open, close) ==
    IF open = -1 \/ close = -1 \/ open + 1 > close THEN Panic
    ELSE Ok(Slice(t, open + 1, close))

InnerSlice(t) == InnerSliceAt(t, Find(t, "("), RFind(t, ")"))

SplitInner(inner) == IF inner.ok THEN split_parameter_types(inner.val) ELSE inner

TupleOf(types) == IF types.ok THEN Ok(<<TRUE, types.val>>) ELSE types

IsTupleCounted(t, count_open_parenthesis, count_close_parenthesis) ==
    IF count_open_parenthesis # count_close_parenthesis THEN Err("InvalidTuple", <<t>>)
    ELSE IF count_open_parenthesis > 0 THEN TupleOf(SplitInner(InnerSlice(t)))
    ELSE Ok(<<FALSE, <<>>>>)

\* is_tuple: Ok(<<is_tuple_type, tuple_types>>) or InvalidTuple
is_tuple(t) == IsTupleCounted(t, Count(t, "("), Count(t, ")"))

GetParameterTypesCounted(t, count_open_parenthesis, count_close_parenthesis) ==
    IF count_open_parenthesis # count_close_parenthesis
    THEN Err("InvalidFunctionSignature", <<t>>)
    ELSE SplitInner(InnerSlice(t))

\* get_parameter_types
get_parameter_types(t) == GetParameterTypesCounted(t, Count(t, "("), Count(t, ")"))

(***************************************************************************)
(* The value model (codec/types.rs, codec/implementations.rs).  A Single   *)
(* holds the bytes its boxed scalar gives by to_bytes_vec() and the type   *)
(* name stored beside it; every scalar's bytes_length() is the length of   *)
(* those bytes.                                                            *)
(***************************************************************************)
Single(b, t) == [single |-> TRUE, bytes |-> b, type_of |-> t, vals |-> <<>>]
Collection(vs) == [single |-> FALSE, bytes |-> <<>>, type_of |-> "", vals |-> vs]

RECURSIVE to_bytes_vec(_)
to_bytes_vec(v) ==
    IF v.single THEN v.bytes
    ELSE IF Len(v.vals) = 0 THEN <<>>
    ELSE to_bytes_vec(v.vals[1]) \o to_bytes_vec(Collection(Tail(v.vals)))

RECURSIVE bytes_length(_)
bytes_length(v) ==
    IF v.single THEN Len(v.bytes)
    ELSE IF Len(v.vals) = 0 THEN 0
    ELSE bytes_length(v.vals[1]) + bytes_length(Collection(Tail(v.vals)))

RECURSIVE eth_type(_)
eth_type(v) ==
    IF v.single THEN v.type_of
    ELSE Join([k \in 1..Len(v.vals) |-> eth_type(v.vals[k])], ",")

\* get_collection_i
get_collection_i(vs, index) ==
    IF vs[index + 1].single THEN <<vs[index + 1]>> ELSE vs[index + 1].vals

(***************************************************************************)
(* Widths and padding (common.rs, codec/utils.rs).                         *)
(***************************************************************************)
SlotSize == 32
MaxWidth == 32
AddressWidth == 20

\* the arms of the match of check_type_and_value, by the width they demand
MatchArms ==
    [k \in 1..MaxWidth |->
        {"uint" \o Dec(8 * k), "int" \o Dec(8 * k), "bytes" \o Dec(k)}
            \cup (IF k = 1 THEN {"bool"} ELSE {})
            \cup (IF k = AddressWidth THEN {"address"} ELSE {})]

AnyOf(S) == IF S = {} THEN 0 ELSE CHOOSE k \in S : TRUE

\* the width the match demands of t; 0 when t has no arm of its own
\* (string, bytes and every unknown name)
MatchWidth(t) == AnyOf({k \in 1..MaxWidth : t \in MatchArms[k]})

WidthMatches(t, width, length) ==
    t \in {"string", "bytes"} \/ (width # 0 /\ length = width)

\* check_type_and_value
check_type_and_value(t, v) ==
    t = eth_type(v) /\ WidthMatches(t, MatchWidth(t), bytes_length(v))

Zeros(n) == [k \in 1..n |-> 0]

\* a pad_left that puts the zeros behind the input: the fault C4 excludes
PadLeftBehind(input, target_length) ==
    IF Len(input) >= target_length THEN input
    ELSE input \o Zeros(target_length - Len(input))

\* pad_left
pad_left(input, target_length) ==
    IF Len(input) >= target_length THEN input
    ELSE Zeros(target_length - Len(input)) \o input

\* pad_right
pad_right(input, target_length) ==
    IF Len(input) >= target_length THEN input
    ELSE input \o Zeros(target_length - Len(input))

\* the w-byte big-endian form of n (n is below 2^31 in the model: only its
\* four low bytes can be other than 0)
ToBeBytes(n, w) ==
    [k \in 1..w |-> IF w - k > 3 THEN 0
                    ELSE (n \div <<1, 256, 65536, 16777216>>[w - k + 1]) % 256]

\* U256::from(n).to_bytes_vec()
U256Bytes(n) == ToBeBytes(n, SlotSize)

(***************************************************************************)
(* The encoder (encode.rs).                                                *)
(***************************************************************************)
\* encode_packed
encode_packed(type_str, value) ==
    IF ~check_type_and_value(type_str, value)
    THEN Err("InvalidTypeAndValue", <<type_str>>)
    ELSE Ok(to_bytes_vec(value))

\* encode after its call of encode_packed: a length word and right padding
\* for a dynamic type, left padding for a static one
EncodePadded(encoded, is_dynamic_type) ==
    IF ~encoded.ok THEN encoded
    ELSE IF is_dynamic_type
    THEN Ok(U256Bytes(Len(encoded.val)) \o pad_right(encoded.val, SlotSize))
    ELSE Ok(pad_left(encoded.val, SlotSize))

\* encode
encode(type_str, value, is_dynamic_type) ==
    EncodePadded(encode_packed(type_str, value), is_dynamic_type)

\* header, dyn_header_placeholder and footer as the loops of abi_encode and
\* encode_array start with them
EmptyRegion == [header |-> <<>>, dyn_header_placeholder |-> <<>>, footer |-> <<>>]

\* header.extend_from_slice(&encode(type_str, value, is_dynamic_type)?)
ExtendHeader(r, again) ==
    IF ~again.ok THEN again ELSE Ok([r EXCEPT !.header = r.header \o again.val])

\* a placement that records every payload at the start of the tail: the
\* fault C11 excludes
PlaceValueAtTailStart(r, i, type_str, value, is_dynamic_type, encoded_value) ==
    IF is_dynamic_type
    THEN Ok([header |-> r.header \o pad_right(<<>>, SlotSize),
             dyn_header_placeholder |->
                 Append(r.dyn_header_placeholder,
                        [header_offset |-> i * SlotSize, footer_offset |-> 0]),
             footer |-> r.footer \o encoded_value])
    ELSE ExtendHeader(r, encode(type_str, value, is_dynamic_type))

\* the second half of one loop iteration, the same code in abi_encode
\* (lines 105-117) and in encode_array (lines 181-193): a dynamic value goes
\* to the footer behind a placeholder, a static one is encoded once more
\* into the header
PlaceValue(r, i, type_str, value, is_dynamic_type, encoded_value) ==
    IF is_dynamic_type
    THEN Ok([header |-> r.header \o pad_right(<<>>, SlotSize),
             dyn_header_placeholder |->
                 Append(r.dyn_header_placeholder,
                        [header_offset |-> i * SlotSize, footer_offset |-> Len(r.footer)]),
             footer |-> r.footer \o encoded_value])
    ELSE ExtendHeader(r, encode(type_str, value, is_dynamic_type))

\* let encoded_value = ...?; followed by the second half of the iteration
PlaceEncoded(r, i, type_str, value, is_dynamic_type, encoded_value) ==
    IF ~encoded_value.ok THEN encoded_value
    ELSE PlaceValue(r, i, type_str, value, is_dynamic_type, encoded_value.val)

\* header[offset..offset + 32].copy_from_slice(word): panics out of range
CopyFromSlice(header, offset, word) ==
    IF offset + Len(word) > Len(header) THEN Panic
    ELSE Ok(SubSeq(header, 1, offset) \o word
            \o SubSeq(header, offset + Len(word) + 1, Len(header)))

RECURSIVE PatchFrom(_, _, _)

\* the back-patching loop after the rewrite of placeholder k
PatchNext(patched, placeholders, k) ==
    IF ~patched.ok THEN patched ELSE PatchFrom(patched.val, placeholders, k + 1)

\* a back-patching loop that writes the tail offset alone, without the head
\* length: the fault C9 excludes
PatchFromTailOnly(header, placeholders, k) ==
    IF k > Len(placeholders) THEN Ok(header)
    ELSE PatchNext(CopyFromSlice(header, placeholders[k].header_offset,
                                 U256Bytes(placeholders[k].footer_offset)),
                   placeholders, k)

\* the back-patching loop: placeholder k onwards is rewritten to
\* header.len() + footer_offset
PatchFrom(header, placeholders, k) ==
    IF k > Len(placeholders) THEN Ok(header)
    ELSE PatchNext(CopyFromSlice(header, placeholders[k].header_offset,
                                 U256Bytes(Len(header) + placeholders[k].footer_offset)),
                   placeholders, k)

\* header.extend(footer)
ExtendFooter(patched, footer) ==
    IF ~patched.ok THEN patched ELSE Ok(patched.val \o footer)

\* the end of abi_encode: back-patch, then header.extend(footer)
FinishRegion(r) == ExtendFooter(PatchFrom(r.header, r.dyn_header_placeholder, 1), r.footer)

\* if size == 0 { the length word goes in front of the body }
PrependLength(body, size, n) ==
    IF ~body.ok THEN body
    ELSE IF size = 0 THEN Ok(U256Bytes(n) \o body.val)
    ELSE body

\* an end of encode_array that measures the offsets of T[] from the length
\* word instead of from the head behind it: the fault C10 excludes
FinishArrayFromLength(r, size, n) ==
    PrependLength(
        FinishRegion([r EXCEPT !.dyn_header_placeholder =
            [k \in 1..Len(r.dyn_header_placeholder) |->
                [r.dyn_header_placeholder[k] EXCEPT
                    !.footer_offset = @ + (IF size = 0 THEN SlotSize ELSE 0)]]]),
        size, n)

\* the end of encode_array: as abi_encode's, then the length word of T[]
FinishArray(r, size, n) == PrependLength(FinishRegion(r), size, n)

\* the element type encode_array derives from the array type
ElementType(arr_type_str) == SplitFirst(arr_type_str, "[")

RECURSIVE abi_encode(_, _)
RECURSIVE encode_array(_, _, _, _, _, _)
RECURSIVE AbiEncodeLoop(_, _, _, _)
RECURSIVE EncodeArrayLoop(_, _, _, _, _, _, _)

\* encoded_value of encode_array's iteration on element i (lines 174-179)
EncodeArrayValue(arr_type_str, vs, is_dynamic_type, is_tuple_type, tuple_types, i) ==
    IF is_tuple_type THEN abi_encode(tuple_types, get_collection_i(vs, i))
    ELSE encode(ElementType(arr_type_str), vs[i + 1], is_dynamic_type)

\* one iteration of encode_array's loop, on element i
EncodeArrayIter(arr_type_str, vs, is_dynamic_type, is_tuple_type, tuple_types, i, r) ==
    PlaceEncoded(r, i, ElementType(arr_type_str), vs[i + 1], is_dynamic_type,
                 EncodeArrayValue(arr_type_str, vs, is_dynamic_type, is_tuple_type,
                                  tuple_types, i))

\* encode_array's loop after iteration i
EncodeArrayNext(arr_type_str, vs, is_dynamic_type, is_tuple_type, tuple_types, i, next) ==
    IF ~next.ok THEN next
    ELSE EncodeArrayLoop(arr_type_str, vs, is_dynamic_type, is_tuple_type, tuple_types,
                         i + 1, next.val)

EncodeArrayLoop(arr_type_str, vs, is_dynamic_type, is_tuple_type, tuple_types, i, r) ==
    IF i >= Len(vs) THEN Ok(r)
    ELSE EncodeArrayNext(arr_type_str, vs, is_dynamic_type, is_tuple_type, tuple_types, i,
                         EncodeArrayIter(arr_type_str, vs, is_dynamic_type, is_tuple_type,
                                         tuple_types, i, r))

\* the length check encode_array starts with
EncodeArrayCheck(arr_type_str, vs, size) ==
    IF size # 0 /\ size # Len(vs)
    THEN Err("InvalidTypeAndValue", <<arr_type_str>>)
    ELSE Ok(<<>>)

\* encode_array after its loop
EncodeArrayEnd(r, size, n) == IF ~r.ok THEN r ELSE FinishArray(r.val, size, n)

\* encode_array after its length check
EncodeArrayChecked(checked, arr_type_str, vs, size, is_dynamic_type, is_tuple_type, tuple_types) ==
    IF ~checked.ok THEN checked
    ELSE EncodeArrayEnd(EncodeArrayLoop(arr_type_str, vs, is_dynamic_type, is_tuple_type,
                                        tuple_types, 0, EmptyRegion),
                        size, Len(vs))

\* encode_array
encode_array(arr_type_str, vs, size, is_dynamic_type, is_tuple_type, tuple_types) ==
    EncodeArrayChecked(EncodeArrayCheck(arr_type_str, vs, size), arr_type_str, vs, size,
                       is_dynamic_type, is_tuple_type, tuple_types)

\* encoded_value of abi_encode's iteration on parameter i (lines 90-103),
\* arr and tup being the results of is_array and is_tuple
AbiEncodeDispatch(type_str, vs, i, arr, is_dynamic_type, tup) ==
    IF ~arr.ok THEN arr
    ELSE IF ~tup.ok THEN tup
    ELSE IF arr.val[1]
    THEN encode_array(type_str, get_collection_i(vs, i), arr.val[2], is_dynamic_type,
                      tup.val[1], tup.val[2])
    ELSE IF tup.val[1] THEN abi_encode(tup.val[2], get_collection_i(vs, i))
    ELSE encode(type_str, vs[i + 1], is_dynamic_type)

\* encoded_value of abi_encode's iteration on parameter i (lines 84-103)
AbiEncodeValue(ts, vs, i) ==
    AbiEncodeDispatch(ts[i + 1], vs, i, is_array(ts[i + 1]), is_dynamic(ts[i + 1]),
                      is_tuple(ts[i + 1]))

\* one iteration of abi_encode's loop, on parameter i
AbiEncodeIter(ts, vs, i, r) ==
    PlaceEncoded(r, i, ts[i + 1], vs[i + 1], is_dynamic(ts[i + 1]),
                 AbiEncodeValue(ts, vs, i))

\* abi_encode's loop after iteration i
AbiEncodeNext(ts, vs, i, next) ==
    IF ~next.ok THEN next ELSE AbiEncodeLoop(ts, vs, i + 1, next.val)

AbiEncodeLoop(ts, vs, i, r) ==
    IF i >= Len(ts) THEN Ok(r)
    ELSE AbiEncodeNext(ts, vs, i, AbiEncodeIter(ts, vs, i, r))

\* the length check abi_encode starts with
AbiEncodeCheck(ts, vs) ==
    IF Len(ts) # Len(vs) THEN Err("LengthsMismatch", <<Len(ts), Len(vs)>>)
    ELSE Ok(<<>>)

\* abi_encode after its loop
AbiEncodeEnd(r) == IF ~r.ok THEN r ELSE FinishRegion(r.val)

\* abi_encode after its length check
AbiEncodeChecked(checked, ts, vs) ==
    IF ~checked.ok THEN checked
    ELSE AbiEncodeEnd(AbiEncodeLoop(ts, vs, 0, EmptyRegion))

\* abi_encode
abi_encode(ts, vs) == AbiEncodeChecked(AbiEncodeCheck(ts, vs), ts, vs)

(***************************************************************************)
(* The selector.  keccak256 is an external function of the repository; the *)
(* model puts a small deterministic digest of the signature's characters   *)
(* in its place: what the codec relies on is that the selector is four     *)
(* bytes and a function of the signature text alone.                       *)
(***************************************************************************)
Alphabet == "abcdefghijklmnopqrstuvwxyz0123456789()[], +"
SelectorSize == 4

\* the sum over the characters lo..hi of s of (position + m) * (code + 2)
RECURSIVE Digest(_, _, _, _)
Digest(s, m, lo, hi) ==
    IF lo > hi THEN 0
    ELSE IF lo = hi THEN ((lo + m) * (Find(Alphabet, CharAt(s, lo)) + 2)) % 65521
    ELSE (Digest(s, m, lo, (lo + hi) \div 2)
            + Digest(s, m, ((lo + hi) \div 2) + 1, hi)) % 65521

keccak256(s) ==
    ToBeBytes(Digest(s, 1, 0, Len(s) - 1), 2) \o ToBeBytes(Digest(s, 7, 0, Len(s) - 1), 2)
        \o Zeros(SlotSize - SelectorSize)

\* abi_encode_selector
abi_encode_selector(sig) == Ok(SubSeq(keccak256(sig), 1, SelectorSize))

\* the selector, then the encoded parameters
Prefixed(selector, encoded) ==
    IF ~selector.ok THEN selector
    ELSE IF ~encoded.ok THEN encoded
    ELSE Ok(selector.val \o encoded.val)

\* abi_encode_with_selector
abi_encode_with_selector(selector, ts, vs) == Prefixed(Ok(selector), abi_encode(ts, vs))

\* abi_encode(&type_strs, values) of abi_encode_with_singature, types being
\* the result of its call of split_parameter_types
EncodeSplit(types, vs) == IF ~types.ok THEN types ELSE abi_encode(types.val, vs)

\* abi_encode_with_singature
abi_encode_with_singature(sig, vs) ==
    Prefixed(abi_encode_selector(sig), EncodeSplit(split_parameter_types(sig), vs))

(***************************************************************************)
(* The packed encoder (encode.rs).                                         *)
(***************************************************************************)
RECURSIVE PackedArrayLoop(_, _, _, _)

\* encoded.splice(0..0, encoded_value): the element's bytes go in front
PackedArrayNext(type_str, vs, k, encoded, encoded_value) ==
    IF ~encoded_value.ok THEN encoded_value
    ELSE PackedArrayLoop(type_str, vs, k + 1, encoded_value.val \o encoded)

PackedArrayLoop(type_str, vs, k, encoded) ==
    IF k > Len(vs) THEN Ok(encoded)
    ELSE PackedArrayNext(type_str, vs, k, encoded, encode_packed(type_str, vs[k]))

\* encode_packed_array
encode_packed_array(type_str, vs) == PackedArrayLoop(type_str, vs, 1, <<>>)

RECURSIVE abi_encode_packed(_, _)
RECURSIVE PackedLoop(_, _, _, _)

\* encoded_value of abi_encode_packed's iteration on parameter i
PackedValue(type_str, vs, i, arr, tup) ==
    IF ~arr.ok THEN arr
    ELSE IF ~tup.ok THEN tup
    ELSE IF arr.val[1] THEN encode_packed_array(type_str, get_collection_i(vs, i))
    ELSE IF tup.val[1] THEN abi_encode_packed(tup.val[2], get_collection_i(vs, i))
    ELSE encode_packed(type_str, vs[i + 1])

\* an accumulation that puts each parameter's bytes in front of the bytes
\* so far: the fault C15 excludes
PackedNextInFront(ts, vs, i, encoded, encoded_value) ==
    IF ~encoded_value.ok THEN encoded_value
    ELSE PackedLoop(ts, vs, i + 1, encoded_value.val \o encoded)

\* encoded.extend(encoded_value): the loop of abi_encode_packed goes on
PackedNext(ts, vs, i, encoded, encoded_value) ==
    IF ~encoded_value.ok THEN encoded_value
    ELSE PackedLoop(ts, vs, i + 1, encoded \o encoded_value.val)

PackedLoop(ts, vs, i, encoded) ==
    IF i >= Len(ts) THEN Ok(encoded)
    ELSE PackedNext(ts, vs, i, encoded,
                    PackedValue(ts[i + 1], vs, i, is_array(ts[i + 1]), is_tuple(ts[i + 1])))

\* abi_encode_packed
abi_encode_packed(ts, vs) ==
    IF Len(ts) # Len(vs) THEN Err("LengthsMismatch", <<Len(ts), Len(vs)>>)
    ELSE PackedLoop(ts, vs, 0, <<>>)

(***************************************************************************)
(* The decoder (decode.rs).  A byte slice is the sequence of its bytes; a  *)
(* range that leaves the slice is a panic.                                 *)
(***************************************************************************)
\* a value no buffer of the model is as long as, standing for every u64
\* that does not fit three bytes
TooBig == 256 * 256 * 256

\* u64::from_be_bytes of the 8 bytes at b[at..at + 8]
U64FromBe(b, at) ==
    IF \E k \in 1..5 : b[at + k] # 0 THEN TooBig
    ELSE b[at + 6] * 65536 + b[at + 7] * 256 + b[at + 8]

\* &b[from..]
SliceFrom(b, from) == IF from > Len(b) THEN Panic ELSE Ok(SubSeq(b, from + 1, Len(b)))

\* &b[from..to]
SliceRange(b, from, to) ==
    IF from < 0 \/ from > to \/ to > Len(b) THEN Panic ELSE Ok(SubSeq(b, from + 1, to))

\* the low 8 bytes of the 32-byte word at b[at..at + 32], read as u64
WordAt(b, at) ==
    IF at + SlotSize > Len(b) THEN Panic ELSE Ok(U64FromBe(b, at + SlotSize - 8))

\* get_bytes_from_type: the width table of the elementary types
get_bytes_from_type(type_str) == MatchWidth(type_str)

\* String::from_utf8 accepts the bytes
RECURSIVE IsUtf8(_)
IsUtf8(b) ==
    IF \A k \in 1..Len(b) : b[k] < 128 THEN TRUE
    ELSE LET c == b[1]
             Cont(k) == k <= Len(b) /\ b[k] >= 128 /\ b[k] <= 191
             Rest(n) == IsUtf8(SubSeq(b, n + 1, Len(b)))
         IN  IF c < 128 THEN Rest(1)
             ELSE IF c >= 194 /\ c <= 223 THEN Cont(2) /\ Rest(2)
             ELSE IF c = 224 THEN Cont(2) /\ b[2] >= 160 /\ Cont(3) /\ Rest(3)
             ELSE IF c = 237 THEN Cont(2) /\ b[2] <= 159 /\ Cont(3) /\ Rest(3)
             ELSE IF c >= 225 /\ c <= 239 THEN Cont(2) /\ Cont(3) /\ Rest(3)
             ELSE IF c = 240 THEN Cont(2) /\ b[2] >= 144 /\ Cont(3) /\ Cont(4) /\ Rest(4)
             ELSE IF c = 244 THEN Cont(2) /\ b[2] <= 143 /\ Cont(3) /\ Cont(4) /\ Rest(4)
             ELSE IF c >= 241 /\ c <= 243 THEN Cont(2) /\ Cont(3) /\ Cont(4) /\ Rest(4)
             ELSE FALSE

\* the arms of decode_packed's match, n being the width of the arm of
\* type_str (0 when it has none)
DecodePackedAs(encoded_value, type_str, n) ==
    IF type_str = "bytes" THEN Ok(Single(encoded_value, type_str))
    ELSE IF type_str = "string"
    THEN IF IsUtf8(encoded_value) THEN Ok(Single(encoded_value, type_str)) ELSE Panic
    ELSE IF n = 0 THEN Err("UnsupportedType", <<type_str>>)
    ELSE IF n > Len(encoded_value) THEN Panic
    ELSE IF type_str = "bool"
    THEN Ok(Single(<<IF encoded_value[1] # 0 THEN 1 ELSE 0>>, type_str))
    ELSE Ok(Single(SubSeq(encoded_value, 1, n), type_str))

\* decode_packed
decode_packed(encoded_value, type_str) ==
    DecodePackedAs(encoded_value, type_str, MatchWidth(type_str))

\* &encoded_value[32..32 + length] with length the word at 0
DynamicInner(encoded_value, length) ==
    IF ~length.ok THEN length
    ELSE SliceRange(encoded_value, SlotSize, SlotSize + length.val)

\* decode after the slicing of inner_value
DecodeInner(inner_value, type_str) ==
    IF ~inner_value.ok THEN inner_value ELSE decode_packed(inner_value.val, type_str)

\* decode
decode(encoded_value, type_str, is_dynamic_type) ==
    DecodeInner(IF is_dynamic_type
                THEN DynamicInner(encoded_value, WordAt(encoded_value, 0))
                ELSE SliceRange(encoded_value, SlotSize - get_bytes_from_type(type_str),
                                SlotSize),
                type_str)

\* &encoded_values[offset + tuple_cursor..]
OffsetSlice(encoded_values, offset, tuple_cursor) ==
    IF ~offset.ok THEN offset ELSE SliceFrom(encoded_values, offset.val + tuple_cursor)

\* handle_offset
handle_offset(encoded_values, cursor, is_dynamic_type, tuple_cursor) ==
    IF is_dynamic_type
    THEN OffsetSlice(encoded_values, WordAt(encoded_values, cursor), tuple_cursor)
    ELSE SliceRange(encoded_values, cursor, cursor + SlotSize)

RECURSIVE abi_decode(_, _)
RECURSIVE AbiDecodeLoop(_, _, _, _, _)
RECURSIVE DecodeArrayLoop(_, _, _, _, _, _, _, _)

\* as DecodeArrayNext, were the cursor left on the first slot of the head
DecodeArrayNextSameSlot(type_str, encoded_values, size, is_dynamic_type, is_tuple_type, tuple_types, cursor, vs, value) ==
    IF ~value.ok THEN value
    ELSE DecodeArrayLoop(type_str, encoded_values, size, is_dynamic_type, is_tuple_type,
                         tuple_types, cursor,
                         Append(vs, IF is_tuple_type THEN Collection(value.val)
                                    ELSE value.val))

\* values.push(..); cursor += step: the loop of decode_array goes on
DecodeArrayNext(type_str, encoded_values, size, is_dynamic_type, is_tuple_type, tuple_types, cursor, vs, value) ==
    IF ~value.ok THEN value
    ELSE DecodeArrayLoop(type_str, encoded_values, size, is_dynamic_type, is_tuple_type,
                         tuple_types,
                         IF is_tuple_type THEN cursor + SlotSize * (Len(vs) + 1)
                         ELSE cursor + SlotSize,
                         Append(vs, IF is_tuple_type THEN Collection(value.val)
                                    ELSE value.val))

\* one iteration of decode_array's loop after its call of handle_offset
DecodeArrayElem(type_str, encoded_values, size, is_dynamic_type, is_tuple_type, tuple_types, cursor, vs, encoded_value) ==
    IF ~encoded_value.ok THEN encoded_value
    ELSE DecodeArrayNext(type_str, encoded_values, size, is_dynamic_type, is_tuple_type,
                         tuple_types, cursor, vs,
                         IF is_tuple_type THEN abi_decode(tuple_types, encoded_value.val)
                         ELSE decode(encoded_value.val, type_str, is_dynamic_type))

\* the loop of decode_array, Len(vs) of size elements done
DecodeArrayLoop(type_str, encoded_values, size, is_dynamic_type, is_tuple_type, tuple_types, cursor, vs) ==
    IF Len(vs) >= size THEN Ok(vs)
    ELSE DecodeArrayElem(type_str, encoded_values, size, is_dynamic_type, is_tuple_type,
                         tuple_types, cursor, vs,
                         handle_offset(encoded_values, cursor, is_dynamic_type,
                                       IF is_tuple_type THEN cursor ELSE 0))

\* decode_array from line 75 on, n and rest being size and encoded_values
\* after lines 71-74
DecodeArrayFrom(arr_type_str, rest, n, is_dynamic_type, is_tuple_type, tuple_types) ==
    IF ~n.ok THEN n
    ELSE IF ~rest.ok THEN rest
    ELSE DecodeArrayLoop(ElementType(arr_type_str), rest.val, n.val, is_dynamic_type,
                         is_tuple_type, tuple_types, 0, <<>>)

\* decode_array
decode_array(arr_type_str, encoded_values, size, is_dynamic_type, is_tuple_type, tuple_types) ==
    DecodeArrayFrom(arr_type_str,
                    IF size = 0 THEN SliceFrom(encoded_values, SlotSize)
                    ELSE Ok(encoded_values),
                    IF size = 0 THEN WordAt(encoded_values, 0) ELSE Ok(size),
                    is_dynamic_type, is_tuple_type, tuple_types)

\* (Value::Collection(values), values.len())
AsCollection(decoded_values) ==
    IF ~decoded_values.ok THEN decoded_values
    ELSE Ok(<<Collection(decoded_values.val), Len(decoded_values.val)>>)

\* (value, 1)
AsSingle(value) == IF ~value.ok THEN value ELSE Ok(<<value.val, 1>>)

\* abi_decode's iteration after its call of handle_offset
AbiDecodeAt(type_str, arr, is_dynamic_type, tup, encoded_value) ==
    IF ~encoded_value.ok THEN encoded_value
    ELSE IF arr.val[1]
    THEN AsCollection(decode_array(type_str, encoded_value.val, arr.val[2],
                                   is_dynamic_type, tup.val[1], tup.val[2]))
    ELSE IF tup.val[1] THEN AsCollection(abi_decode(tup.val[2], encoded_value.val))
    ELSE AsSingle(decode(encoded_value.val, type_str, is_dynamic_type))

\* abi_decode's iteration after is_array, is_dynamic and is_tuple
AbiDecodeDispatch(type_str, encoded_values, cursor, arr, is_dynamic_type, tup) ==
    IF ~arr.ok THEN arr
    ELSE IF ~tup.ok THEN tup
    ELSE AbiDecodeAt(type_str, arr, is_dynamic_type, tup,
                     handle_offset(encoded_values, cursor, is_dynamic_type, 0))

\* one iteration of abi_decode's loop: Ok(<<value, size>>), the decoded
\* parameter and the number of slots the cursor then advances by
AbiDecodeIter(type_str, encoded_values, cursor) ==
    AbiDecodeDispatch(type_str, encoded_values, cursor, is_array(type_str),
                      is_dynamic(type_str), is_tuple(type_str))

\* values.push(value); cursor += size * 32
AbiDecodeNext(ts, encoded_values, i, cursor, vs, step) ==
    IF ~step.ok THEN step
    ELSE AbiDecodeLoop(ts, encoded_values, i + 1, cursor + step.val[2] * SlotSize,
                       Append(vs, step.val[1]))

AbiDecodeLoop(ts, encoded_values, i, cursor, vs) ==
    IF i >= Len(ts) THEN Ok(vs)
    ELSE AbiDecodeNext(ts, encoded_values, i, cursor, vs,
                       AbiDecodeIter(ts[i + 1], encoded_values, cursor))

\* abi_decode
abi_decode(ts, encoded_values) == AbiDecodeLoop(ts, encoded_values, 0, 0, <<>>)

\* the values the variable cursor of abi_decode takes at the start of the
\* iterations of its loop, from parameter i on, up to the first that fails
RECURSIVE CursorsFrom(_, _, _, _)
CursorsAfter(ts, encoded_values, i, cursor, step) ==
    IF ~step.ok THEN <<>>
    ELSE CursorsFrom(ts, encoded_values, i + 1, cursor + step.val[2] * SlotSize)

CursorsFrom(ts, encoded_values, i, cursor) ==
    IF i >= Len(ts) THEN <<>>
    ELSE <<cursor>> \o CursorsAfter(ts, encoded_values, i, cursor,
                                    AbiDecodeIter(ts[i + 1], encoded_values, cursor))

Cursors(ts, encoded_values) == CursorsFrom(ts, encoded_values, 0, 0)

\* as DecodeSelected, were the first four bytes dropped without being compared
DecodeUnselected(types, encoded_values, selector, prefix) ==
    IF ~selector.ok THEN selector
    ELSE IF ~types.ok THEN types
    ELSE IF ~prefix.ok THEN prefix
    ELSE abi_decode(types.val,
                    SubSeq(encoded_values, SelectorSize + 1, Len(encoded_values)))

\* abi_decode_with_signature after the selector, the split of the signature
\* and the first four bytes
DecodeSelected(types, encoded_values, selector, prefix) ==
    IF ~selector.ok THEN selector
    ELSE IF ~types.ok THEN types
    ELSE IF ~prefix.ok THEN prefix
    ELSE IF selector.val # prefix.val THEN Err("InvalidSelector", <<>>)
    ELSE abi_decode(types.val,
                    SubSeq(encoded_values, SelectorSize + 1, Len(encoded_values)))

\* abi_decode_with_signature
abi_decode_with_signature(sig, encoded_values) ==
    DecodeSelected(split_parameter_types(sig), encoded_values, abi_encode_selector(sig),
                   SliceRange(encoded_values, 0, SelectorSize))

(***************************************************************************)
(* The calls the model makes: the values a caller builds with              *)
(* ValueBuilder / build_values!, paired with type strings.                 *)
(***************************************************************************)
MaxSurround == 1    \* parameters before and after the parameter under study
MaxArrayLen == 2    \* elements of a dynamic array
MaxStrLen == 33     \* bytes of the longest string

U256(n) == Single(U256Bytes(n), "uint256")
U8(n) == Single(<<n>>, "uint8")
I16Neg == Single(<<255, 254>>, "int16")
Addr == Single([k \in 1..AddressWidth |-> 160 + k], "address")
BoolTrue == Single(<<1>>, "bool")
Str(len) == Single([k \in 1..len |-> 97 + (k % 26)], "string")
Byt(len) == Single([k \in 1..len |-> 255 - k], "bytes")
Bytes4 == Single(<<222, 173, 190, 239>>, "bytes4")
Bytes32 == Single([k \in 1..MaxWidth |-> k], "bytes32")

StrLens == {0, 1, SlotSize, MaxStrLen}
ArrayLens == 0..MaxArrayLen

Param(t, v) == [type_str |-> t, value |-> v]

\* the (string[],uint256,uint8) tuple of the encoder's tests
TestTuple == Collection(<<Collection(<<Str(13), Str(13)>>), U256(1), U8(1)>>)

StaticScalarParams ==
    {Param("uint256", U256(1)), Param("uint8", U8(255)), Param("int16", I16Neg),
     Param("address", Addr), Param("bool", BoolTrue)}

DynamicLeafParams ==
    {Param("string", Str(len)) : len \in StrLens} \cup {Param("bytes", Byt(2))}

FixedBytesParams == {Param("bytes4", Bytes4), Param("bytes32", Bytes32)}

ArrayParams ==
    {Param("uint256[]", Collection([k \in 1..n |-> U256(k)])) : n \in ArrayLens}
    \cup {Param("string[]", Collection([k \in 1..n |-> Str(k)])) : n \in ArrayLens}
    \cup {Param("string[2]", Collection(<<Str(13), Str(1)>>)),
          Param("address[2]", Collection(<<Addr, Addr>>))}

TupleParams ==
    {Param("(uint256,address)", Collection(<<U256(1), Addr>>)),
     Param("(string,uint8)", Collection(<<Str(1), U8(7)>>)),
     Param("(string[],uint256,uint8)", TestTuple)}

TupleArrayParams ==
    {Param("(string,uint8)[]", Collection([k \in 1..n |-> Collection(<<Str(k), U8(k)>>)])) :
        n \in ArrayLens}
    \cup {Param("(string[],uint256,uint8)[]", Collection(<<TestTuple>>))}

Params ==
    StaticScalarParams \cup DynamicLeafParams \cup FixedBytesParams
        \cup ArrayParams \cup TupleParams \cup TupleArrayParams

SurroundParams == {Param("uint256", U256(2)), Param("string", Str(13))}

RECURSIVE SeqsUpTo(_, _)
SeqsUpTo(S, n) ==
    IF n = 0 THEN {<<>>}
    ELSE {<<>>} \cup {<<x>> \o q : x \in S, q \in SeqsUpTo(S, n - 1)}

\* the parameter lists: nothing, or a parameter with up to MaxSurround
\* parameters on each side
ParamLists ==
    {<<>>} \cup {pre \o <<p>> \o post : p \in Params,
                 pre \in SeqsUpTo(SurroundParams, MaxSurround),
                 post \in SeqsUpTo(SurroundParams, MaxSurround)}

\* the call of the encoder's test of an array between two scalars:
\* [address, string[2], uint256] with the address 0, "Hello, world!" twice, 1
HelloWorld == Single(<<72, 101, 108, 108, 111, 44, 32, 119, 111, 114, 108, 100, 33>>, "string")
ArrayBetweenScalars ==
    <<Param("address", Single([k \in 1..AddressWidth |-> 0], "address")),
      Param("string[2]", Collection(<<HelloWorld, HelloWorld>>)),
      Param("uint256", U256(1))>>

FunctionNames == {"", "f", "transfer"}

\* the signature a caller writes for a function name and its parameter types
SignatureOf(name, ts) == name \o "(" \o Join(ts, ",") \o ")"

(***************************************************************************)
(* The calls in progress.  A frame is one activation of abi_encode or of   *)
(* encode_array: its arguments and its loop variables.                     *)
(***************************************************************************)
AbiEncodeFrame(ts, vs) ==
    [fn |-> "abi_encode", ts |-> ts, vs |-> vs, arr_type_str |-> "", size |-> 0,
     is_dynamic_type |-> FALSE, is_tuple_type |-> FALSE,
     i |-> 0, r |-> EmptyRegion, waiting |-> FALSE]

EncodeArrayFrame(arr_type_str, vs, size, is_dynamic_type, is_tuple_type, tuple_types) ==
    [fn |-> "encode_array", ts |-> tuple_types, vs |-> vs, arr_type_str |-> arr_type_str,
     size |-> size, is_dynamic_type |-> is_dynamic_type, is_tuple_type |-> is_tuple_type,
     i |-> 0, r |-> EmptyRegion, waiting |-> FALSE]

\* the frame of a call, or the error of the callee's length check
Entered(checked, frame) == IF ~checked.ok THEN checked ELSE Ok(frame)

\* the call of abi_encode
EnterAbiEncode(ts, vs) == Entered(AbiEncodeCheck(ts, vs), AbiEncodeFrame(ts, vs))

\* the call of encode_array
EnterEncodeArray(arr_type_str, vs, size, is_dynamic_type, is_tuple_type, tuple_types) ==
    Entered(EncodeArrayCheck(arr_type_str, vs, size),
            EncodeArrayFrame(arr_type_str, vs, size, is_dynamic_type, is_tuple_type,
                             tuple_types))

\* the type string and dynamism frame f encodes its element i with
FrameType(f) == IF f.fn = "abi_encode" THEN f.ts[f.i + 1] ELSE ElementType(f.arr_type_str)
FrameDynamic(f) ==
    IF f.fn = "abi_encode" THEN is_dynamic(f.ts[f.i + 1]) ELSE f.is_dynamic_type

Call(res) == [kind |-> "call", res |-> res]
Leaf == [kind |-> "leaf", res |-> NoRet]
Error(res) == [kind |-> "error", res |-> res]

\* what abi_encode does first with its parameter i, arr and tup being the
\* results of is_array and is_tuple
DispatchParameter(type_str, vs, i, arr, is_dynamic_type, tup) ==
    IF ~arr.ok THEN Error(arr)
    ELSE IF ~tup.ok THEN Error(tup)
    ELSE IF arr.val[1] \/ tup.val[1]
    THEN Call(IF arr.val[1]
              THEN EnterEncodeArray(type_str, get_collection_i(vs, i), arr.val[2],
                                    is_dynamic_type, tup.val[1], tup.val[2])
              ELSE EnterAbiEncode(tup.val[2], get_collection_i(vs, i)))
    ELSE Leaf

\* what encode_array does first with its element i
DispatchElement(f) ==
    IF f.is_tuple_type THEN Call(EnterAbiEncode(f.ts, get_collection_i(f.vs, f.i)))
    ELSE Leaf

\* what frame f does first with its element i: "call" a nested abi_encode or
\* encode_array (res is the callee's frame or the error of its length
\* check), fail with an "error" of the grammar, or encode a "leaf" itself
Dispatch(f) ==
    IF f.fn = "encode_array" THEN DispatchElement(f)
    ELSE DispatchParameter(f.ts[f.i + 1], f.vs, f.i, is_array(f.ts[f.i + 1]),
                           is_dynamic(f.ts[f.i + 1]), is_tuple(f.ts[f.i + 1]))

\* the iteration of frame f on a leaf element
LeafIter(f) ==
    IF f.fn = "abi_encode" THEN AbiEncodeIter(f.ts, f.vs, f.i, f.r)
    ELSE EncodeArrayIter(f.arr_type_str, f.vs, f.is_dynamic_type, f.is_tuple_type,
                         f.ts, f.i, f.r)

\* what frame f returns once its loop is over
FrameResult(f) ==
    IF f.fn = "abi_encode" THEN FinishRegion(f.r) ELSE FinishArray(f.r, f.size, Len(f.vs))

Top == stack[Len(stack)]
ReplaceTop(f) == [stack EXCEPT ![Len(stack)] = f]

(***************************************************************************)
(* The state machine: a caller holding a parameter list calls one of the   *)
(* encoders and then the matching decoder on the bytes it got.             *)
(***************************************************************************)
Init ==
    /\ op = "idle"
    /\ \E ps \in ParamLists \cup {ArrayBetweenScalars} :
          /\ type_strs = [k \in 1..Len(ps) |-> ps[k].type_str]
          /\ values = [k \in 1..Len(ps) |-> ps[k].value]
    /\ signature = ""
    /\ stack = <<>>
    /\ result = NoRet
    /\ decoded = NoRet

\* the encoder fails: every frame returns the error to its caller (the ?s)
Fail(e) == stack' = <<>> /\ result' = e

\* the encoder goes on with the frames s
Continue(s) == stack' = s /\ result' = result

\* the outermost abi_encode is entered, or fails its length check
Started(entered) == IF entered.ok THEN Continue(<<entered.val>>) ELSE Fail(entered)

\* the caller calls abi_encode(type_strs, values)
CallAbiEncode ==
    /\ op = "idle"
    /\ op' = "abi_encode"
    /\ Started(EnterAbiEncode(type_strs, values))
    /\ UNCHANGED <<type_strs, values, signature, decoded>>

\* the end of a leaf iteration: next is the region after it, or its error
LeafDone(next) ==
    IF ~next.ok THEN Fail(next)
    ELSE Continue(ReplaceTop([Top EXCEPT !.i = Top.i + 1, !.r = next.val]))

LeafStep(d) ==
    /\ d.kind # "call"
    /\ IF d.kind = "error" THEN Fail(d.res) ELSE LeafDone(LeafIter(Top))

\* one whole loop iteration of the innermost call, on a leaf element
EncodeLeaf ==
    /\ stack # <<>>
    /\ Top.i < Len(Top.vs)
    /\ ~Top.waiting
    /\ LeafStep(Dispatch(Top))
    /\ UNCHANGED <<op, type_strs, values, signature, decoded>>

EnterStep(d) ==
    /\ d.kind = "call"
    /\ IF ~d.res.ok THEN Fail(d.res)
       ELSE Continue(Append(ReplaceTop([Top EXCEPT !.waiting = TRUE]), d.res.val))

\* the innermost call reaches an array or tuple element and calls
\* encode_array or abi_encode for it
EncodeEnter ==
    /\ stack # <<>>
    /\ Top.i < Len(Top.vs)
    /\ ~Top.waiting
    /\ EnterStep(Dispatch(Top))
    /\ UNCHANGED <<op, type_strs, values, signature, decoded>>

\* the caller's iteration ends with the value the callee returned
Placed(caller, placed) ==
    IF ~placed.ok THEN Fail(placed)
    ELSE Continue(Append(SubSeq(stack, 1, Len(stack) - 2),
                         [caller EXCEPT !.i = caller.i + 1, !.r = placed.val,
                                        !.waiting = FALSE]))

ReturnTo(caller, encoded_value) ==
    Placed(caller, PlaceValue(caller.r, caller.i, FrameType(caller),
                              caller.vs[caller.i + 1], FrameDynamic(caller),
                              encoded_value))

ReturnStep(out) ==
    IF ~out.ok THEN Fail(out)
    ELSE IF Len(stack) = 1 THEN stack' = <<>> /\ result' = out
    ELSE ReturnTo(stack[Len(stack) - 1], out.val)

\* the innermost call ends its loop and returns; its caller, if any, ends
\* the iteration that made the call
EncodeReturn ==
    /\ stack # <<>>
    /\ Top.i = Len(Top.vs)
    /\ ReturnStep(FrameResult(Top))
    /\ UNCHANGED <<op, type_strs, values, signature, decoded>>

\* the caller calls abi_encode_with_singature with the signature of a
\* function that takes type_strs
CallAbiEncodeWithSignature ==
    /\ op = "idle"
    /\ op' = "abi_encode_with_singature"
    /\ \E name \in FunctionNames :
          /\ signature' = SignatureOf(name, type_strs)
          /\ result' = abi_encode_with_singature(signature', values)
    /\ UNCHANGED <<type_strs, values, stack, decoded>>

\* the caller calls abi_encode_packed(type_strs, values)
CallAbiEncodePacked ==
    /\ op = "idle"
    /\ op' = "abi_encode_packed"
    /\ result' = abi_encode_packed(type_strs, values)
    /\ UNCHANGED <<type_strs, values, signature, stack, decoded>>

\* the caller decodes the bytes abi_encode returned
CallAbiDecode ==
    /\ op = "abi_encode"
    /\ result.ok
    /\ decoded = NoRet
    /\ decoded' = abi_decode(type_strs, result.val)
    /\ UNCHANGED <<op, type_strs, values, signature, stack, result>>

\* the caller decodes the bytes abi_encode_with_singature returned
CallAbiDecodeWithSignature ==
    /\ op = "abi_encode_with_singature"
    /\ result.ok
    /\ decoded = NoRet
    /\ decoded' = abi_decode_with_signature(signature, result.val)
    /\ UNCHANGED <<op, type_strs, values, signature, stack, result>>

Next ==
    \/ CallAbiEncode
    \/ EncodeLeaf
    \/ EncodeEnter
    \/ EncodeReturn
    \/ CallAbiEncodeWithSignature
    \/ CallAbiEncodePacked
    \/ CallAbiDecode
    \/ CallAbiDecodeWithSignature

Spec == Init /\ [][Next]_vars

(***************************************************************************)
(* A caller with any arguments: type lists and value lists that do not     *)
(* match, nested arrays, and type strings outside the grammar.             *)
(***************************************************************************)
Args(ts, vs) == [ts |-> ts, vs |-> vs]

\* a leaf built with create_value, its type name given beside it
U16(n, type_str) == Single(ToBeBytes(n, 2), type_str)

\* arrays of arrays, with a Group of Groups of matching leaves
NestedArrayCalls ==
    {Args(<<"uint256[][]">>, <<Collection([k \in 1..n |-> Collection([j \in 1..m |-> U256(j)])])>>) :
        n \in 1..MaxArrayLen, m \in 1..MaxArrayLen}
    \cup {Args(<<"string[2][]">>, <<Collection(<<Collection(<<Str(1), Str(2)>>)>>)>>)}

\* a count of types that differs from the count of values, at the top level
\* or at a tuple inside
MismatchedCalls ==
    {Args(<<"uint256", "uint256">>, <<U256(1)>>),
     Args(<<"uint256">>, <<>>),
     Args(<<>>, <<U256(1)>>),
     Args(<<"string">>, <<Str(1), U8(1)>>),
     Args(<<"(string,uint8)">>, <<Collection(<<Str(1)>>)>>),
     Args(<<"(uint256,address)">>, <<Collection(<<U256(1), Addr, Addr>>)>>),
     Args(<<"((string,uint8),uint8)">>, <<Collection(<<Collection(<<Str(1)>>), U8(1)>>)>>),
     Args(<<"(string,uint8)[]">>, <<Collection(<<Collection(<<Str(1)>>)>>)>>),
     Args(<<"(string,uint8)[2]">>,
          <<Collection(<<Collection(<<Str(1), U8(1)>>), Collection(<<Str(1)>>)>>)>>)}

\* a leaf of another type or width than the type string, and a fixed-size
\* array with another number of elements than its type declares
IllTypedCalls ==
    {Args(<<"uint8">>, <<U16(7, "uint16")>>),
     Args(<<"uint8">>, <<U16(7, "uint8")>>),
     Args(<<"address">>, <<U256(1)>>),
     Args(<<"string">>, <<Byt(2)>>),
     Args(<<"uint256[]">>, <<Collection(<<U256(1), U8(1)>>)>>),
     Args(<<"(string,uint8)">>, <<Collection(<<Str(1), U16(7, "uint16")>>)>>)}
    \cup {Args(<<"string[2]">>, <<Collection([k \in 1..n |-> Str(k)])>>) :
              n \in (0..(MaxArrayLen + 1)) \ {2}}
    \cup {Args(<<"address[2]">>, <<Collection(<<Addr>>)>>),
          Args(<<"uint256[3]">>, <<Collection(<<U256(1), U256(2)>>)>>),
          Args(<<"string[0]">>, <<Collection(<<Str(1), Str(2)>>)>>),
          Args(<<"(string,uint8)[2]">>, <<Collection(<<Collection(<<Str(1), U8(1)>>)>>)>>)}

\* a Group where the type is elementary, a leaf where the type is an array
MisshapenCalls ==
    {Args(<<"uint256">>, <<Collection(<<U256(1)>>)>>),
     Args(<<"string">>, <<Collection(<<Str(1)>>)>>),
     Args(<<"uint256">>, <<Collection(<<U256(1), U256(2)>>)>>),
     Args(<<"uint256">>, <<Collection(<<>>)>>),
     Args(<<"uint256[]">>, <<U256(1)>>),
     Args(<<"string[]">>, <<Str(1)>>),
     Args(<<"string[2]">>, <<Str(1)>>)}

\* type strings outside the grammar
MalformedTypes ==
    {")(", "a[3]b", "é", "(é)", "((é))", "((é,uint8))", "(é,uint8)", "uint256[",
     "uint256[x]", "(uint256", "uint256)", "][", "", "[]", "()"}

MalformedCalls ==
    {Args(<<t>>, <<v>>) : t \in MalformedTypes, v \in {U256(1), Collection(<<U256(1)>>)}}

\* the calls: each of the above on its own, or behind up to MaxSurround
\* well-typed parameters
AnyCalls ==
    {Args([k \in 1..Len(pre) |-> pre[k].type_str] \o c.ts,
          [k \in 1..Len(pre) |-> pre[k].value] \o c.vs) :
        pre \in SeqsUpTo(SurroundParams, MaxSurround),
        c \in NestedArrayCalls \cup MismatchedCalls \cup IllTypedCalls \cup MisshapenCalls
                  \cup MalformedCalls}

InitAny ==
    /\ op = "idle"
    /\ \E c \in AnyCalls : type_strs = c.ts /\ values = c.vs
    /\ signature = ""
    /\ stack = <<>>
    /\ result = NoRet
    /\ decoded = NoRet

NextAny ==
    \/ CallAbiEncode
    \/ EncodeLeaf
    \/ EncodeEnter
    \/ EncodeReturn
    \/ CallAbiEncodePacked

SpecAny == InitAny /\ [][NextAny]_vars

(***************************************************************************)
(* A caller decoding bytes it received: what an encoder returned, whole,   *)
(* cut short, or overwritten on the way.                                   *)
(***************************************************************************)
\* the parameter lists the sender encoded
ReceivedLists ==
    {pre \o <<p>> : p \in Params, pre \in SeqsUpTo(SurroundParams, MaxSurround)}

TypesOf(ps) == [k \in 1..Len(ps) |-> ps[k].type_str]
ValuesOf(ps) == [k \in 1..Len(ps) |-> ps[k].value]

\* the bytes the sender's abi_encode returned
Sent(ps) == abi_encode(TypesOf(ps), ValuesOf(ps)).val

\* b cut short: to nothing, inside the selector, inside the first slot,
\* by its last slot, by its last byte
Truncated(b) ==
    {SubSeq(b, 1, n) : n \in {m \in {0, SelectorSize - 1, SlotSize - 1,
                                      Len(b) - SlotSize, Len(b) - 1} : m >= 0 /\ m < Len(b)}}

\* the 32-byte word w of b overwritten by the number n
Rewritten(b, w, n) ==
    SubSeq(b, 1, w * SlotSize) \o U256Bytes(n) \o SubSeq(b, (w + 1) * SlotSize + 1, Len(b))

\* one word of b overwritten by a number that leaves the buffer
Overwritten(b) ==
    {Rewritten(b, w, n) : w \in 0..((Len(b) \div SlotSize) - 1),
                          n \in {Len(b) + 1, Len(b) + SlotSize}}

\* the first byte of the last word of b overwritten by 0xff
Smudged(b) ==
    IF Len(b) < SlotSize THEN {} ELSE {[b EXCEPT ![Len(b) - SlotSize + 1] = 255]}

\* the most significant byte of one word of b set to 1: the word is 2^248
\* more than it was
Raised(b) ==
    {[b EXCEPT ![w * SlotSize + 1] = 1] : w \in 0..((Len(b) \div SlotSize) - 1)}

\* what arrives of b
Damaged(b) == {b} \cup Truncated(b) \cup Overwritten(b) \cup Smudged(b) \cup Raised(b)

\* the four bytes in front of the parameters: the selector, or the selector
\* of another function
Prefixes(sig, selector) == {selector, abi_encode_selector("g" \o sig).val}

Received(ts, sig, bytes) == [ts |-> ts, sig |-> sig, bytes |-> bytes]

\* the buffers handed to abi_decode for the types ts, sent being their encoding
PlainFrom(ts, sent) == {Received(ts, "", b) : b \in Damaged(sent)}

ReceivedPlain == UNION {PlainFrom(TypesOf(ps), Sent(ps)) : ps \in ReceivedLists}

\* the buffers handed to abi_decode_with_signature for the signature sig
SignedFrom(ts, sig, sent, selector) ==
    {Received(ts, sig, pre \o rest) :
        pre \in Prefixes(sig, selector), rest \in {sent} \cup Truncated(sent)}
    \cup {Received(ts, sig, b) : b \in Truncated(selector)}

SignedAs(ts, sig, sent) == SignedFrom(ts, sig, sent, abi_encode_selector(sig).val)

ReceivedSigned ==
    UNION {SignedAs(TypesOf(ps), SignatureOf(name, TypesOf(ps)), Sent(ps)) :
              ps \in ReceivedLists, name \in FunctionNames \ {""}}

InitDecode ==
    /\ op = "received"
    /\ \E r \in ReceivedPlain \cup ReceivedSigned :
          /\ type_strs = r.ts
          /\ signature = r.sig
          /\ result = Ok(r.bytes)
    /\ values = <<>>
    /\ stack = <<>>
    /\ decoded = NoRet

\* the caller calls abi_decode(type_strs, the bytes received)
DecodeReceived ==
    /\ op = "received"
    /\ signature = ""
    /\ op' = "abi_decode"
    /\ decoded' = abi_decode(type_strs, result.val)
    /\ UNCHANGED <<type_strs, values, signature, stack, result>>

\* the caller calls abi_decode_with_signature(signature, the bytes received)
DecodeReceivedWithSignature ==
    /\ op = "received"
    /\ signature # ""
    /\ op' = "abi_decode_with_signature"
    /\ decoded' = abi_decode_with_signature(signature, result.val)
    /\ UNCHANGED <<type_strs, values, signature, stack, result>>

NextDecode ==
    \/ DecodeReceived
    \/ DecodeReceivedWithSignature

SpecDecode == InitDecode /\ [][NextDecode]_vars

(***************************************************************************)
(* A caller of the type grammar (common.rs): one text, handed to each of   *)
(* the public functions.                                                   *)
(***************************************************************************)
MaxTypeLen == 3     \* characters of the texts made of any characters
MaxTypeDepth == 2   \* array and tuple constructors around an elementary type

\* the characters the grammar looks at, a digit and a letter
TypeChars == {"(", ")", "[", "]", ",", "2", "a"}

\* every text of up to n of these characters
RECURSIVE TextsUpTo(_)
TextsUpTo(n) ==
    IF n = 0 THEN {""}
    ELSE TextsUpTo(n - 1) \cup {s \o c : s \in TextsUpTo(n - 1), c \in TypeChars}

\* a type with its text and whether it is dynamic by its structure
Type(text, dyn) == [text |-> text, dyn |-> dyn]

ElementaryTypes ==
    {Type("uint256", FALSE), Type("uint8", FALSE), Type("int16", FALSE),
     Type("address", FALSE), Type("bool", FALSE), Type("bytes4", FALSE),
     Type("bytes32", FALSE), Type("string", TRUE), Type("bytes", TRUE)}

\* the types that close a tuple of two components
SecondComponents == {Type("uint8", FALSE), Type("string", TRUE)}

\* the types built by up to n constructors: T[], T[2], (T), (T,U)
RECURSIVE TypesUpTo(_)
TypesUpTo(n) ==
    IF n = 0 THEN ElementaryTypes
    ELSE TypesUpTo(n - 1)
         \cup {Type(t.text \o "[]", TRUE) : t \in TypesUpTo(n - 1)}
         \cup {Type(t.text \o "[2]", t.dyn) : t \in TypesUpTo(n - 1)}
         \cup {Type("(" \o t.text \o ")", t.dyn) : t \in TypesUpTo(n - 1)}
         \cup {Type("(" \o t.text \o "," \o u.text \o ")", t.dyn \/ u.dyn) :
                  t \in TypesUpTo(n - 1), u \in SecondComponents}

WellFormedTypes == TypesUpTo(MaxTypeDepth)

\* the texts of the tests of common.rs, and lists and signatures like them
TestTexts ==
    {"(uint256,address,(uint256[],bytes)[],address,uint8)",
     "(uint256,(address,uint256[])[],uint8)",
     "(uint8,bool),(address,uint8)",
     "blabla(uint256,address,(uint256[],bytes)[],address,uint8)",
     "blablauint64,address)", "blabla(uint64,address", "transfer(address,uint256)",
     "f()", "address,uint256[]", "uint256,bytes", "address,string",
     "address[3]", "address[]", "address", "address[", "bytes[3]", "a[3]b",
     "uint256[x]", "(uint256,address)[3]", "(uint256[2],address)", ")(", "()()"}

Texts == TextsUpTo(MaxTypeLen) \cup {t.text : t \in WellFormedTypes} \cup TestTexts

InitGrammar ==
    /\ op = "idle"
    /\ signature \in Texts
    /\ type_strs = <<>>
    /\ values = <<>>
    /\ stack = <<>>
    /\ result = NoRet
    /\ decoded = NoRet

CallSplitParameterTypes ==
    /\ op = "idle"
    /\ op' = "split_parameter_types"
    /\ result' = split_parameter_types(signature)
    /\ UNCHANGED <<type_strs, values, signature, stack, decoded>>

CallIsArray ==
    /\ op = "idle"
    /\ op' = "is_array"
    /\ result' = is_array(signature)
    /\ UNCHANGED <<type_strs, values, signature, stack, decoded>>

CallIsTuple ==
    /\ op = "idle"
    /\ op' = "is_tuple"
    /\ result' = is_tuple(signature)
    /\ UNCHANGED <<type_strs, values, signature, stack, decoded>>

CallGetParameterTypes ==
    /\ op = "idle"
    /\ op' = "get_parameter_types"
    /\ result' = get_parameter_types(signature)
    /\ UNCHANGED <<type_strs, values, signature, stack, decoded>>

CallIsDynamic ==
    /\ op = "idle"
    /\ op' = "is_dynamic"
    /\ result' = Ok(is_dynamic(signature))
    /\ UNCHANGED <<type_strs, values, signature, stack, decoded>>

NextGrammar ==
    \/ CallSplitParameterTypes
    \/ CallIsArray
    \/ CallIsTuple
    \/ CallGetParameterTypes
    \/ CallIsDynamic

SpecGrammar == InitGrammar /\ [][NextGrammar]_vars

(***************************************************************************)
(* Properties.  The parameter lists of Init pair every type with a value   *)
(* of that type, so every call the model makes has compatible arguments.   *)
(***************************************************************************)
\* the stepwise encoder returns what abi_encode, taken as a function, returns
StepsAgree ==
    (op = "abi_encode" /\ result # NoRet) => result = abi_encode(type_strs, values)

Frames == {stack[k] : k \in 1..Len(stack)}

RECURSIVE Flatten(_)
Flatten(parts) == IF parts = <<>> THEN <<>> ELSE parts[1] \o Flatten(Tail(parts))

\* the static scalar types and their widths in bytes
StaticScalarNames ==
    {"address", "bool"} \cup {"uint" \o Dec(8 * k) : k \in 1..MaxWidth}
        \cup {"int" \o Dec(8 * k) : k \in 1..MaxWidth}

ScalarWidth(t) ==
    IF t = "address" THEN AddressWidth
    ELSE IF t = "bool" THEN 1
    ELSE CHOOSE k \in 1..MaxWidth : t \in {"uint" \o Dec(8 * k), "int" \o Dec(8 * k)}

FixedBytesNames == {"bytes" \o Dec(k) : k \in 1..MaxWidth}

\* the slot of a static scalar: zeros, then the payload
LeftSlot(t, v) == Zeros(SlotSize - ScalarWidth(t)) \o v.bytes

\* the payload of a string or bytes leaf: length, content, zeros up to the
\* next multiple of 32
DynamicLeafPayload(v) ==
    U256Bytes(Len(v.bytes)) \o v.bytes
        \o Zeros((SlotSize - (Len(v.bytes) % SlotSize)) % SlotSize)

\* the type of element j (from 0) of frame f, and whether the encoder
\* treats it as dynamic
TypeAt(f, j) == IF f.fn = "abi_encode" THEN f.ts[j + 1] ELSE ElementType(f.arr_type_str)
DynamicAt(f, j) ==
    IF f.fn = "abi_encode" THEN is_dynamic(f.ts[j + 1]) ELSE f.is_dynamic_type

\* the element placeholder k of frame f stands for, and the bytes the
\* footer of f holds for it
PlaceholderIndex(f, k) == f.r.dyn_header_placeholder[k].header_offset \div SlotSize
FooterPayload(f, k) ==
    SubSeq(f.r.footer, f.r.dyn_header_placeholder[k].footer_offset + 1,
           IF k < Len(f.r.dyn_header_placeholder)
           THEN f.r.dyn_header_placeholder[k + 1].footer_offset
           ELSE Len(f.r.footer))

\* the payload the encoder computes for element j of frame f
PayloadOf(f, j) ==
    IF f.fn = "abi_encode" THEN AbiEncodeValue(f.ts, f.vs, j)
    ELSE EncodeArrayValue(f.arr_type_str, f.vs, f.is_dynamic_type, f.is_tuple_type,
                          f.ts, j)

\* the dynamic elements among the first n of frame f, in order
DynamicIndices(f, n) == SortedSeq({j \in 0..(n - 1) : DynamicAt(f, j)})

\* the length of the tail once the payloads of the first k dynamic
\* elements d[1..k] have been appended
RECURSIVE TailLength(_, _, _)
TailLength(f, d, k) ==
    IF k = 0 THEN 0 ELSE TailLength(f, d, k - 1) + Len(PayloadOf(f, d[k]).val)

\* C1: for every signature S and compatible value list V,
\* abi_encode_with_singature(S, V) succeeds and
\* abi_decode_with_signature(S, .) of its bytes returns V.
C1_SignatureRoundTrip ==
    (op = "abi_encode_with_singature" /\ result # NoRet)
        => /\ result.ok
           /\ decoded # NoRet => decoded = Ok(values)

\* C2: whenever abi_encode(T, V) succeeds, abi_decode(T, .) of its bytes
\* returns V.
C2_RoundTrip ==
    (op = "abi_encode" /\ result.ok /\ decoded # NoRet) => decoded = Ok(values)

\* C3: abi_encode_with_singature(S, V) returns the selector of S followed by
\* abi_encode(P, V), P being get_parameter_types(S).
C3_SelectorThenParameters ==
    (op = "abi_encode_with_singature" /\ result # NoRet
        /\ get_parameter_types(signature).ok)
        => result = Prefixed(abi_encode_selector(signature),
                             abi_encode(get_parameter_types(signature).val, values))

\* C4: for a list of static scalar types, abi_encode returns one slot per
\* parameter, in order: 32 - width zero bytes, then the width-byte payload.
C4_StaticScalarSlots ==
    (op = "abi_encode" /\ result # NoRet
        /\ \A k \in 1..Len(type_strs) : type_strs[k] \in StaticScalarNames)
        => result = Ok(Flatten([k \in 1..Len(type_strs) |->
                                   LeftSlot(type_strs[k], values[k])]))

C4_Witness ==
    op = "abi_encode" /\ result.ok /\ type_strs = <<"uint256", "int16", "uint256">>

\* C5: the payload written for a string or bytes leaf of length L is the
\* 32-byte L, then the content padded with zeros to the next multiple of 32,
\* and every successful abi_encode output is a multiple of 32 bytes long.
C5_DynamicLeafPayload ==
    /\ (op = "abi_encode" /\ result.ok) => Len(result.val) % SlotSize = 0
    /\ \A f \in Frames : \A k \in 1..Len(f.r.dyn_header_placeholder) :
          TypeAt(f, PlaceholderIndex(f, k)) \in {"string", "bytes"}
              => FooterPayload(f, k) = DynamicLeafPayload(f.vs[PlaceholderIndex(f, k) + 1])

\* C6: the payload of T[] with static scalar T and N leaves is uint256(N)
\* followed by the N left-padded slots: 32 + 32 * N bytes.
C6_StaticElementArray ==
    \A f \in Frames : \A k \in 1..Len(f.r.dyn_header_placeholder) :
        (f.fn = "abi_encode"
            /\ \E e \in StaticScalarNames : f.ts[PlaceholderIndex(f, k) + 1] = e \o "[]")
            => FooterPayload(f, k) =
                   U256Bytes(Len(f.vs[PlaceholderIndex(f, k) + 1].vals))
                       \o Flatten([n \in 1..Len(f.vs[PlaceholderIndex(f, k) + 1].vals) |->
                                      LeftSlot(ElementType(f.ts[PlaceholderIndex(f, k) + 1]),
                                               f.vs[PlaceholderIndex(f, k) + 1].vals[n])])

\* a tuple of static scalars, or T[N] of a static scalar T, with a Group of
\* matching size
IsStaticComposite(t, v) ==
    /\ ~v.single
    /\ \/ /\ StartsWith(t, "(") /\ EndsWith(t, ")")
          /\ Len(split_parameter_types(t).val) = Len(v.vals)
          /\ \A n \in 1..Len(v.vals) : split_parameter_types(t).val[n] \in StaticScalarNames
       \/ \E e \in StaticScalarNames : t = e \o "[" \o Dec(Len(v.vals)) \o "]"

ComponentType(t, n) ==
    IF StartsWith(t, "(") THEN split_parameter_types(t).val[n] ELSE ElementType(t)

\* the slots of a static parameter, in place
InPlace(t, v) ==
    IF v.single THEN LeftSlot(t, v)
    ELSE Flatten([n \in 1..Len(v.vals) |-> LeftSlot(ComponentType(t, n), v.vals[n])])

\* C7: abi_encode accepts static tuples and fixed-size arrays of static
\* elements and encodes them in place, as the slots of their elements.
C7_StaticCompositeInPlace ==
    (/\ op = "abi_encode"
     /\ result # NoRet
     /\ \A k \in 1..Len(type_strs) :
           \/ type_strs[k] \in StaticScalarNames
           \/ IsStaticComposite(type_strs[k], values[k])
     /\ \E k \in 1..Len(type_strs) : IsStaticComposite(type_strs[k], values[k]))
        => result = Ok(Flatten([k \in 1..Len(type_strs) |-> InPlace(type_strs[k], values[k])]))

\* C8: a bytesN parameter takes one head slot, the N bytes followed by
\* 32 - N zeros, with no offset word and nothing in the tail.
C8_FixedBytesStatic ==
    \A f \in Frames : \A j \in 0..(f.i - 1) :
        (f.fn = "abi_encode" /\ f.ts[j + 1] \in FixedBytesNames)
            => /\ SubSeq(f.r.header, SlotSize * j + 1, SlotSize * j + SlotSize)
                      = f.vs[j + 1].bytes \o Zeros(SlotSize - Len(f.vs[j + 1].bytes))
               /\ \A k \in 1..Len(f.r.dyn_header_placeholder) : PlaceholderIndex(f, k) # j

\* after i elements: the head is 32 * i bytes, and the placeholders are
\* those of the dynamic elements, at 32 * index, with the tail length of
\* the moment
HeadInvariant(f) ==
    /\ Len(f.r.header) = SlotSize * f.i
    /\ Len(f.r.dyn_header_placeholder) = Len(DynamicIndices(f, f.i))
    /\ \A k \in 1..Len(f.r.dyn_header_placeholder) :
          /\ f.r.dyn_header_placeholder[k].header_offset
                 = SlotSize * DynamicIndices(f, f.i)[k]
          /\ f.r.dyn_header_placeholder[k].footer_offset
                 = TailLength(f, DynamicIndices(f, f.i), k - 1)

\* in the bytes out of the region of f, the slot of the k-th dynamic
\* element holds off, and the bytes at off are the element's payload
PatchedAt(f, out, k, off) ==
    /\ off + Len(PayloadOf(f, DynamicIndices(f, Len(f.vs))[k]).val) <= Len(out)
    /\ SubSeq(out, SlotSize * DynamicIndices(f, Len(f.vs))[k] + 1,
              SlotSize * DynamicIndices(f, Len(f.vs))[k] + SlotSize) = U256Bytes(off)
    /\ SubSeq(out, off + 1, off + Len(PayloadOf(f, DynamicIndices(f, Len(f.vs))[k]).val))
           = PayloadOf(f, DynamicIndices(f, Len(f.vs))[k]).val

BackPatched(f, out) ==
    \A k \in 1..Len(DynamicIndices(f, Len(f.vs))) :
        PatchedAt(f, out, k,
                  SlotSize * Len(f.vs) + TailLength(f, DynamicIndices(f, Len(f.vs)), k - 1))

\* C9: in abi_encode and encode_array the head is 32 * i bytes after i
\* elements, each dynamic element having the slot at 32 * i; on success the
\* slot holds the final head length plus the tail length when the payload
\* was appended, and the output at that offset is the element's payload.
C9_HeadAndBackPatching ==
    /\ \A f \in Frames : HeadInvariant(f)
    /\ \A f \in Frames :
          f.i = Len(f.vs) => FinishRegion(f.r).ok /\ BackPatched(f, FinishRegion(f.r).val)
    /\ (op = "abi_encode" /\ result.ok)
          => BackPatched(AbiEncodeFrame(type_strs, values), result.val)

C9_Witness ==
    /\ op = "abi_encode"
    /\ result.ok
    /\ type_strs = <<"string", "string[]", "string">>
    /\ Len(values[2].vals) = MaxArrayLen

\* where the head of the region of f starts in the bytes f returns
RegionBase(f) == IF f.fn = "encode_array" /\ f.size = 0 THEN SlotSize ELSE 0

\* the offset o in the slot of the dynamic element j of f points, counted
\* from the head of the region, behind the head and at the element's payload
OffsetRelative(f, out, j, o) ==
    /\ o.ok
    /\ o.val >= SlotSize * Len(f.vs)
    /\ RegionBase(f) + o.val + Len(PayloadOf(f, j).val) <= Len(out)
    /\ SubSeq(out, RegionBase(f) + o.val + 1,
              RegionBase(f) + o.val + Len(PayloadOf(f, j).val)) = PayloadOf(f, j).val

InnerOffsetsRelative(f, out) ==
    \A j \in 0..(Len(f.vs) - 1) :
        DynamicAt(f, j) => OffsetRelative(f, out, j, WordAt(out, RegionBase(f) + SlotSize * j))

\* a dynamic array or a dynamic tuple
IsNestedDynamic(t) == is_dynamic(t) /\ (is_array(t).val[1] \/ is_tuple(t).val[1])

\* the payload of parameter j (from 1) in the output out is alone: the
\* bytes from the offset in slot j to the next payload or the end
SamePayload(out, ts, j, o, alone) ==
    /\ o.ok
    /\ o.val + Len(alone) <= Len(out)
    /\ SubSeq(out, o.val + 1, o.val + Len(alone)) = alone
    /\ o.val + Len(alone)
           = IF \E n \in (j + 1)..Len(ts) : is_dynamic(ts[n])
             THEN WordAt(out, SlotSize * ((CHOOSE n \in (j + 1)..Len(ts) :
                                              /\ is_dynamic(ts[n])
                                              /\ \A m \in (j + 1)..(n - 1) : ~is_dynamic(ts[m]))
                                          - 1)).val
             ELSE Len(out)

\* the encoding of parameter j on its own, without the head slot
Alone(encoded) == SubSeq(encoded.val, SlotSize + 1, Len(encoded.val))

\* C10: the offsets inside a nested region count from the region's own
\* head (behind the length word for T[], the start of the payload for T[N]
\* and for a tuple), and the payload of a dynamic array or tuple is the same
\* whatever parameters surround it.
C10_RegionRelativeOffsets ==
    /\ \A k \in 2..Len(stack) :
          stack[k].i = Len(stack[k].vs)
              => /\ FrameResult(stack[k]).ok
                 /\ InnerOffsetsRelative(stack[k], FrameResult(stack[k]).val)
    /\ (op = "abi_encode" /\ result.ok)
          => \A j \in 1..Len(type_strs) :
                IsNestedDynamic(type_strs[j])
                    => /\ abi_encode(<<type_strs[j]>>, <<values[j]>>).ok
                       /\ SamePayload(result.val, type_strs, j,
                                      WordAt(result.val, SlotSize * (j - 1)),
                                      Alone(abi_encode(<<type_strs[j]>>, <<values[j]>>)))

C10_Witness ==
    /\ op = "abi_encode"
    /\ result.ok
    /\ Len(type_strs) = 3
    /\ type_strs[2] = "string[]"
    /\ Len(values[2].vals) = MaxArrayLen

\* the offset words of the dynamic elements of f, in declaration order, in
\* the bytes out of the region of f
OffsetWords(f, out) ==
    [k \in 1..Len(DynamicIndices(f, Len(f.vs))) |->
        WordAt(out, SlotSize * DynamicIndices(f, Len(f.vs))[k]).val]

StrictlyIncreasing(words) == \A k \in 1..(Len(words) - 1) : words[k] < words[k + 1]

\* C11: in every head region abi_encode produces (top level, dynamic tuple,
\* array of dynamic elements) the offset words of the dynamic entries, read
\* in declaration order, are strictly increasing.
C11_OffsetsIncrease ==
    /\ \A f \in Frames :
          f.i = Len(f.vs)
              => /\ FinishRegion(f.r).ok
                 /\ StrictlyIncreasing(OffsetWords(f, FinishRegion(f.r).val))
    /\ (op = "abi_encode" /\ result.ok)
          => StrictlyIncreasing(OffsetWords(AbiEncodeFrame(type_strs, values), result.val))

C11_Witness ==
    /\ op = "abi_encode"
    /\ result.ok
    /\ type_strs = <<"string", "(string,uint8)[]", "string">>
    /\ Len(values[2].vals) = MaxArrayLen

\* the elementary types: the static scalars, bytesN, string and bytes
ScalarNames == StaticScalarNames \cup FixedBytesNames \cup {"string", "bytes"}

\* a tuple type of elementary components with a Group of as many leaves
IsScalarTuple(t, v) ==
    /\ ~v.single
    /\ StartsWith(t, "(") /\ EndsWith(t, ")")
    /\ split_parameter_types(t).ok
    /\ Len(split_parameter_types(t).val) = Len(v.vals)
    /\ \A n \in 1..Len(v.vals) :
          /\ split_parameter_types(t).val[n] \in ScalarNames
          /\ v.vals[n].single

\* an array type T[] or T[N] of an elementary T with a Group of leaves of type T
IsLeafArray(t, v) ==
    /\ ~v.single
    /\ \E e \in ScalarNames : t = e \o "[]" \/ t = e \o "[" \o Dec(Len(v.vals)) \o "]"
    /\ \A n \in 1..Len(v.vals) : v.vals[n].single /\ v.vals[n].type_of = ElementType(t)

\* the payloads of the leaves of v in declaration order, nothing between them
PackedLeaves(v) ==
    IF v.single THEN v.bytes ELSE Flatten([n \in 1..Len(v.vals) |-> v.vals[n].bytes])

\* C15: abi_encode_packed over elementary types and tuples of them returns
\* the payloads of the leaves in declaration order, with no padding, length
\* word or offset: as many bytes as the leaves are wide.
C15_PackedScalars ==
    (/\ op = "abi_encode_packed"
     /\ \A k \in 1..Len(type_strs) :
           \/ type_strs[k] \in ScalarNames
           \/ IsScalarTuple(type_strs[k], values[k]))
        => /\ result = Ok(Flatten([k \in 1..Len(type_strs) |-> PackedLeaves(values[k])]))
           /\ Len(result.val) = bytes_length(Collection(values))

C15_Witness ==
    /\ op = "abi_encode_packed"
    /\ result.ok
    /\ type_strs = <<"uint256", "(string,uint8)", "string">>

\* C16: abi_encode_packed of an array type with a Group of leaves of the
\* element type returns the elements' packed encodings in declaration order,
\* first element first, with no length prefix and no offsets.
C16_PackedArray ==
    (/\ op = "abi_encode_packed"
     /\ \A k \in 1..Len(type_strs) :
           \/ type_strs[k] \in ScalarNames
           \/ IsLeafArray(type_strs[k], values[k])
     /\ \E k \in 1..Len(type_strs) : IsLeafArray(type_strs[k], values[k]))
        => result = Ok(Flatten([k \in 1..Len(type_strs) |-> PackedLeaves(values[k])]))

\* the children a value is taken apart into
Children(v) == IF v.single THEN <<v>> ELSE v.vals

\* T[][] or T[N][] with a Group of Groups: an array type behind whose last
\* bracket pair another array type is left
InnerArrayType(t) == Slice(t, 0, RFind(t, "["))
IsNestedArray(t, v) ==
    /\ EndsWith(t, "]")
    /\ RFind(t, "[") = Len(t) - 2
    /\ EndsWith(InnerArrayType(t), "]")
    /\ ~v.single
    /\ \A n \in 1..Len(v.vals) : ~v.vals[n].single

\* the payload of inner array n of v, encoded by the rules of its own type
InnerPayload(t, v, n) == Alone(abi_encode(<<InnerArrayType(t)>>, <<v.vals[n]>>))

\* the length of the first n inner payloads
RECURSIVE InnerLength(_, _, _)
InnerLength(t, v, n) ==
    IF n = 0 THEN 0 ELSE InnerLength(t, v, n - 1) + Len(InnerPayload(t, v, n))

\* the payload of an array of dynamic arrays: the length word, one offset
\* word for each inner array, the payloads of the inner arrays
NestedArrayPayload(t, v) ==
    U256Bytes(Len(v.vals))
        \o Flatten([n \in 1..Len(v.vals) |->
                       U256Bytes(SlotSize * Len(v.vals) + InnerLength(t, v, n - 1))])
        \o Flatten([n \in 1..Len(v.vals) |-> InnerPayload(t, v, n)])

\* C12: abi_encode accepts an array whose elements are arrays, with a Group
\* of Groups of matching leaves, and encodes it as its length word followed
\* by the head and tail of the inner arrays, each encoded by the rules of
\* its own type.
C12_NestedArrays ==
    (/\ op = "abi_encode"
     /\ result # NoRet
     /\ Len(type_strs) = 1
     /\ Len(values) = 1
     /\ IsNestedArray(type_strs[1], values[1]))
        => /\ \A n \in 1..Len(values[1].vals) :
                 abi_encode(<<InnerArrayType(type_strs[1])>>, <<values[1].vals[n]>>).ok
           /\ result = Ok(U256Bytes(SlotSize) \o NestedArrayPayload(type_strs[1], values[1]))

\* the counts <<n, m>> at the first level, in declaration order, where n
\* types meet m values: the list itself, a tuple in it, or a tuple that is
\* the element of an array in it; <<>> when there is none
RECURSIVE Mismatch(_, _)
RECURSIVE MismatchIn(_, _)
RECURSIVE FirstMismatch(_, _, _)
RECURSIVE FirstElementMismatch(_, _, _)
FirstMismatch(ts, vs, k) ==
    IF k > Len(ts) THEN <<>>
    ELSE IF MismatchIn(ts[k], vs[k]) # <<>> THEN MismatchIn(ts[k], vs[k])
    ELSE FirstMismatch(ts, vs, k + 1)

FirstElementMismatch(components, elements, k) ==
    IF k > Len(elements) THEN <<>>
    ELSE IF Mismatch(components, Children(elements[k])) # <<>>
    THEN Mismatch(components, Children(elements[k]))
    ELSE FirstElementMismatch(components, elements, k + 1)

Mismatch(ts, vs) ==
    IF Len(ts) # Len(vs) THEN <<Len(ts), Len(vs)>> ELSE FirstMismatch(ts, vs, 1)

MismatchIn(t, v) ==
    IF ~is_array(t).ok \/ ~is_tuple(t).ok \/ ~is_tuple(t).val[1] THEN <<>>
    ELSE IF ~is_array(t).val[1] THEN Mismatch(is_tuple(t).val[2], Children(v))
    ELSE IF is_array(t).val[2] \in {0, Len(Children(v))}
    THEN FirstElementMismatch(is_tuple(t).val[2], Children(v), 1)
    ELSE <<>>

\* the width in bytes an elementary type declares; 0 for string and bytes
DeclaredWidth(t) ==
    IF t \in StaticScalarNames THEN ScalarWidth(t)
    ELSE IF t \in FixedBytesNames THEN CHOOSE k \in 1..MaxWidth : t = "bytes" \o Dec(k)
    ELSE 0

\* a leaf of another type name than t, or of another width than t declares
LeafFault(t, v) ==
    \/ v.type_of # t
    \/ t \notin {"string", "bytes"} /\ Len(v.bytes) # DeclaredWidth(t)

\* the text between the last bracket pair of an array type
DeclaredLength(t) == Slice(t, RFind(t, "[") + 1, RFind(t, "]"))

\* T[N] with another number of children than the decimal N
ArrayCountFault(t, v) ==
    /\ DeclaredLength(t) # ""
    /\ ParseUsize(DeclaredLength(t)).ok
    /\ ParseUsize(DeclaredLength(t)).val # Len(Children(v))

\* every leaf has the type and the width of its type string, every
\* fixed-size array the number of elements its type declares
RECURSIVE WellTyped(_, _)
WellTyped(t, v) ==
    IF ~is_array(t).ok \/ ~is_tuple(t).ok THEN FALSE
    ELSE IF is_array(t).val[1]
    THEN /\ ~ArrayCountFault(t, v)
         /\ \A n \in 1..Len(Children(v)) :
               IF is_tuple(t).val[1]
               THEN \A c \in 1..Len(Children(Children(v)[n])) :
                       c <= Len(is_tuple(t).val[2])
                           => WellTyped(is_tuple(t).val[2][c], Children(Children(v)[n])[c])
               ELSE WellTyped(ElementType(t), Children(v)[n])
    ELSE IF is_tuple(t).val[1]
    THEN \A c \in 1..Len(Children(v)) :
            c <= Len(is_tuple(t).val[2]) => WellTyped(is_tuple(t).val[2][c], Children(v)[c])
    ELSE v.single /\ check_type_and_value(t, v)

\* C13: abi_encode and abi_encode_packed return LengthsMismatch(|T|, |V|),
\* the two counts in that order, whenever the number of type strings differs
\* from the number of values, at the top level and at every tuple inside.
C13_LengthsMismatch ==
    (/\ op \in {"abi_encode", "abi_encode_packed"}
     /\ result # NoRet
     /\ Mismatch(type_strs, values) # <<>>
     /\ \A k \in 1..Len(type_strs) : k <= Len(values) => WellTyped(type_strs[k], values[k]))
        => result = Err("LengthsMismatch", Mismatch(type_strs, values))

\* somewhere in v, paired with t, a leaf has another type or width than its
\* elementary type string, or a fixed-size array another number of children
\* than its type declares
RECURSIVE HasTypeFault(_, _)
HasTypeFault(t, v) ==
    IF t \in ScalarNames THEN v.single /\ LeafFault(t, v)
    ELSE IF v.single \/ ~is_array(t).ok \/ ~is_tuple(t).ok THEN FALSE
    ELSE IF is_array(t).val[1]
    THEN \/ ArrayCountFault(t, v)
         \/ \E n \in 1..Len(v.vals) :
               IF is_tuple(t).val[1]
               THEN \E c \in 1..Len(Children(v.vals[n])) :
                       /\ c <= Len(is_tuple(t).val[2])
                       /\ HasTypeFault(is_tuple(t).val[2][c], Children(v.vals[n])[c])
               ELSE HasTypeFault(ElementType(t), v.vals[n])
    ELSE IF is_tuple(t).val[1]
    THEN \E c \in 1..Len(v.vals) :
            c <= Len(is_tuple(t).val[2]) /\ HasTypeFault(is_tuple(t).val[2][c], v.vals[c])
    ELSE FALSE

\* C14: abi_encode returns InvalidTypeAndValue, and no bytes, when a leaf's
\* type name or width differs from its elementary type string, and when
\* T[N] is paired with a Group of another number of children than N.
C14_InvalidTypeAndValue ==
    (/\ op = "abi_encode"
     /\ result # NoRet
     /\ Mismatch(type_strs, values) = <<>>
     /\ \E k \in 1..Len(type_strs) : HasTypeFault(type_strs[k], values[k]))
        => ~result.ok /\ result.err = "InvalidTypeAndValue"

\* C20: abi_encode and abi_encode_packed return bytes or a CodecError for
\* every list of type strings, malformed ones too, and every value list:
\* no call aborts.
C20_EncodersTotal ==
    (op \in {"abi_encode", "abi_encode_packed"} /\ result # NoRet)
        => result.ok \/ result.err \in CodecErrorKinds

\* C17: for every buffer of at least 4 bytes whose first four bytes differ
\* from the selector computed from the signature, abi_decode_with_signature
\* returns InvalidSelector and no values, whatever follows the four bytes.
C17_InvalidSelector ==
    (/\ op = "abi_decode_with_signature"
     /\ Len(result.val) >= SelectorSize
     /\ SubSeq(result.val, 1, SelectorSize) # abi_encode_selector(signature).val)
        => decoded = Err("InvalidSelector", <<>>)

\* another function's selector in front of parameters that decode
C17_Witness ==
    /\ op = "abi_decode_with_signature"
    /\ decoded = Err("InvalidSelector", <<>>)
    /\ type_strs = <<"address">>
    /\ Len(result.val) > SelectorSize
    /\ SubSeq(result.val, 1, SelectorSize) # abi_encode_selector(signature).val
    /\ abi_decode(<<signature>>, SubSeq(result.val, SelectorSize + 1, Len(result.val))).ok

\* the head slot of the k-th of type strings that take one slot each
HeadAt(k) == (k - 1) * SlotSize

\* the number in the head slot of the k-th type
OffsetOf(b, k) == WordAt(b, HeadAt(k)).val

\* the buffer b is shorter than the layout of the types ts requires: no room
\* for the head slots, an offset beyond the end, or a string or bytes whose
\* length word is larger than the bytes that remain
TooShortFor(ts, b) ==
    \/ Len(b) < SlotSize * Len(ts)
    \/ \E k \in 1..Len(ts) :
          /\ is_dynamic(ts[k])
          /\ \/ OffsetOf(b, k) > Len(b)
             \/ /\ ts[k] \in {"string", "bytes"}
                /\ OffsetOf(b, k) + SlotSize <= Len(b)
                /\ OffsetOf(b, k) + SlotSize + WordAt(b, OffsetOf(b, k)).val > Len(b)

\* C18: abi_decode and abi_decode_with_signature return InvalidValueLength,
\* rather than aborting or returning values, when the buffer is shorter than
\* the layout requires: fewer than 32 bytes for a head slot, fewer than 4
\* bytes for the selector, an offset beyond the end, a length word larger
\* than the bytes that remain.
C18_InvalidValueLength ==
    (\/ op = "abi_decode" /\ TooShortFor(type_strs, result.val)
     \/ op = "abi_decode_with_signature" /\ Len(result.val) < SelectorSize)
        => ~decoded.ok /\ decoded.err = "InvalidValueLength"

\* the content of the string that is the k-th parameter in b
StringContent(b, k) ==
    SubSeq(b, OffsetOf(b, k) + SlotSize + 1,
           OffsetOf(b, k) + SlotSize + WordAt(b, OffsetOf(b, k)).val)

\* b holds, whole, a string parameter whose content is not UTF-8
HasNonUtf8String(ts, b) ==
    /\ ~TooShortFor(ts, b)
    /\ \E k \in 1..Len(ts) : ts[k] = "string" /\ ~IsUtf8(StringContent(b, k))

\* C19: decoding a string whose content is not valid UTF-8 returns a
\* CodecError to the caller: the bytes are not replaced and the call does
\* not abort.
C19_Utf8Error ==
    (op = "abi_decode" /\ HasNonUtf8String(type_strs, result.val))
        => ~decoded.ok /\ decoded.err \in CodecErrorKinds

\* the '(' minus the ')' among the first p characters of s
ParenDepth(s, p) == Count(Slice(s, 0, p), "(") - Count(Slice(s, 0, p), ")")

\* s is wrapped in a matching outer pair: its first '(' closes at its end
OuterWrapped(s) ==
    /\ StartsWith(s, "(") /\ EndsWith(s, ")")
    /\ \A p \in 1..(Len(s) - 1) : ParenDepth(s, p) >= 1

\* the texts between the commas of u at parenthesis depth 0, in order
RECURSIVE CommaSegments(_, _, _)
CommaSegments(u, from, p) ==
    IF p = Len(u) THEN <<Slice(u, from, p)>>
    ELSE IF CharAt(u, p) = "," /\ ParenDepth(u, p) = 0
    THEN <<Slice(u, from, p)>> \o CommaSegments(u, p + 1, p + 1)
    ELSE CommaSegments(u, from, p + 1)

WithoutEmpty(segments) == SelectSeq(segments, LAMBDA x : x # "")

TopLevelSegments(s) ==
    WithoutEmpty(CommaSegments(IF OuterWrapped(s) THEN Slice(s, 1, Len(s) - 1) ELSE s, 0, 0))

\* C21: split_parameter_types(s) returns, in order, the texts between the
\* commas of s at parenthesis depth 0, after removing the outer parentheses
\* only when s is wrapped in a matching pair, without the empty ones; each
\* is balanced when s is.
C21_SplitParameterTypes ==
    op = "split_parameter_types"
        => /\ result = Ok(TopLevelSegments(signature))
           /\ Count(signature, "(") = Count(signature, ")")
                 => \A k \in 1..Len(result.val) :
                        Count(result.val[k], "(") = Count(result.val[k], ")")

\* t ends with a bracket pair that closes after every ')' of t
EndsWithBrackets(t) ==
    /\ EndsWith(t, "]")
    /\ RFind(t, "[") # -1
    /\ RFind(t, "[") > RFind(t, ")")

\* the text between the last '[' and the last ']'
LastBrackets(t) == Slice(t, RFind(t, "[") + 1, RFind(t, "]"))

\* a decimal number: digits only, at least one
IsDecimal(body) == body # "" /\ \A i \in 0..(Len(body) - 1) : IsDigit(CharAt(body, i))

\* C22: is_array(t) returns (true, N) exactly when t ends with a bracket
\* pair that closes after every ')', N being the decimal in the pair and 0
\* for '[]'; (false, 0) when t has no brackets or its last ')' comes after
\* its last bracket; InvalidArray(t) when the counts of '[' and ']' differ
\* or the text in the brackets is not a decimal number.
C22_IsArray ==
    op = "is_array"
        => /\ (result.ok /\ result.val[1])
                 <=> /\ Count(signature, "[") = Count(signature, "]")
                     /\ EndsWithBrackets(signature)
                     /\ LastBrackets(signature) = "" \/ IsDecimal(LastBrackets(signature))
           /\ (result.ok /\ result.val[1])
                 => result.val[2] = IF LastBrackets(signature) = "" THEN 0
                                    ELSE DecVal(LastBrackets(signature), 0)
           /\ (\/ Count(signature, "[") + Count(signature, "]") = 0
               \/ /\ Count(signature, "[") = Count(signature, "]")
                  /\ RFind(signature, ")") > RFind(signature, "[")
                  /\ RFind(signature, ")") > RFind(signature, "]"))
                 => result = Ok(<<FALSE, 0>>)
           /\ (\/ Count(signature, "[") # Count(signature, "]")
               \/ /\ EndsWithBrackets(signature)
                  /\ LastBrackets(signature) # ""
                  /\ ~IsDecimal(LastBrackets(signature)))
                 => result = Err("InvalidArray", <<signature>>)

\* C23: is_tuple(t) returns (true, components) only when t begins with '('
\* and has as many '(' as ')', the components being split_parameter_types
\* of the text between the first '(' and the last ')'; (false, []) for a
\* type without parentheses; InvalidTuple(t) when the two counts differ.
C23_IsTuple ==
    op = "is_tuple"
        => /\ (result.ok /\ result.val[1])
                 => /\ StartsWith(signature, "(")
                    /\ Count(signature, "(") = Count(signature, ")")
                    /\ Ok(result.val[2])
                          = split_parameter_types(Slice(signature, Find(signature, "(") + 1,
                                                        RFind(signature, ")")))
           /\ Count(signature, "(") + Count(signature, ")") = 0
                 => result = Ok(<<FALSE, <<>>>>)
           /\ Count(signature, "(") # Count(signature, ")")
                 => result = Err("InvalidTuple", <<signature>>)

\* the signature has a balanced parenthesised parameter list
HasParameterList(t) ==
    /\ Count(t, "(") = Count(t, ")")
    /\ Find(t, "(") # -1
    /\ Find(t, "(") < RFind(t, ")")

\* C24: get_parameter_types(signature) returns the top-level parameter type
\* strings between the first '(' and the last ')', and returns
\* InvalidFunctionSignature(signature) for every signature without a
\* balanced parenthesised parameter list: unequal counts, no parentheses at
\* all, or a ')' before the first '('.
C24_GetParameterTypes ==
    op = "get_parameter_types"
        => IF HasParameterList(signature)
           THEN result = split_parameter_types(Slice(signature, Find(signature, "(") + 1,
                                                     RFind(signature, ")")))
           ELSE result = Err("InvalidFunctionSignature", <<signature>>)

\* is dynamic by its structure: string, bytes, a T[], a T[N] of a dynamic
\* element, a tuple with a dynamic component
StructurallyDynamic(t) == (CHOOSE type \in WellFormedTypes : type.text = t).dyn

\* C25: for every well-formed type string the textual is_dynamic equals the
\* structural definition, e.g. false for address[3] and true for bytes[3].
C25_IsDynamic ==
    (op = "is_dynamic" /\ \E type \in WellFormedTypes : type.text = signature)
        => result = Ok(StructurallyDynamic(signature))

\* a fixed-size array of string or bytes elements
IsFixedDynamicLeafArray(t) ==
    /\ ElementType(t) \in {"string", "bytes"}
    /\ EndsWith(t, "]")
    /\ IsDecimal(LastBrackets(t))
    /\ t = ElementType(t) \o "[" \o LastBrackets(t) \o "]"

\* C26: decoding the encoder's output for [address, string[2], uint256]
\* yields at index 1 a Group of the two original string leaves in order; in
\* general a fixed array T[N] of string or bytes elements decodes to the N
\* leaves its N offset words lead to.
C26_FixedStringArray ==
    (op = "abi_encode" /\ decoded # NoRet)
        => /\ type_strs = <<"address", "string[2]", "uint256">> => decoded.ok
           /\ \A k \in 1..Len(type_strs) :
                 (decoded.ok /\ IsFixedDynamicLeafArray(type_strs[k]))
                     => decoded.val[k] = values[k]

C26_Witness ==
    /\ op = "abi_encode"
    /\ type_strs = <<"address", "string[2]", "uint256">>
    /\ decoded.ok
    /\ decoded.val[2] = Collection(<<HelloWorld, HelloWorld>>)

\* a parameter that takes one slot of the head: an elementary type or a
\* dynamic one
OneSlot(t) == is_dynamic(t) \/ (~is_array(t).val[1] /\ ~is_tuple(t).val[1])

\* C27: abi_decode walks the head at stride 32: when it starts parameter i
\* its cursor is 32 * i; every parameter, a dynamic array or tuple of any
\* number of elements included, advances the cursor by its one head slot.
C27_HeadStride ==
    (op = "abi_encode" /\ decoded # NoRet)
        => \A i \in 1..Len(Cursors(type_strs, result.val)) :
              (\A j \in 1..(i - 1) : OneSlot(type_strs[j]))
                  => Cursors(type_strs, result.val)[i] = SlotSize * (i - 1)

\* an array type whose elements are tuples with a dynamic component
IsDynamicTupleArray(t) ==
    /\ is_array(t).ok /\ is_array(t).val[1]
    /\ StartsWith(t, "(")
    /\ \E c \in 1..Len(is_tuple(t).val[2]) : is_dynamic(is_tuple(t).val[2][c])

\* the bytes of b from the byte at index from on
BytesFrom(b, from) == SubSeq(b, from + 1, Len(b))

\* the head of the array that is parameter j of the buffer b: what its
\* offset leads to, after the length word when the array is a T[]
ArrayHead(b, j, t) ==
    BytesFrom(b, OffsetOf(b, j) + (IF is_array(t).val[2] = 0 THEN SlotSize ELSE 0))

\* the tuple that starts at the offset in slot k of the array head
TupleAtSlot(head, k, tuple_types) ==
    abi_decode(tuple_types, BytesFrom(head, WordAt(head, SlotSize * k).val))

\* C28: decode_array over an array of N >= 2 dynamic tuples reads the offset
\* of element k from slot k of the array's head and decodes the tuple that
\* starts at that offset from the start of the head, for every k in 0..N-1.
C28_TupleArrayOffsets ==
    (op = "abi_encode" /\ decoded # NoRet)
        => \A j \in 1..Len(type_strs) :
              (/\ IsDynamicTupleArray(type_strs[j])
               /\ Len(values[j].vals) >= 2
               /\ \A i \in 1..(j - 1) : OneSlot(type_strs[i]))
                  => LET elements == decode_array(type_strs[j],
                                                  BytesFrom(result.val, OffsetOf(result.val, j)),
                                                  is_array(type_strs[j]).val[2], TRUE, TRUE,
                                                  is_tuple(type_strs[j]).val[2])
                     IN  /\ elements.ok
                         /\ \A k \in 0..(Len(values[j].vals) - 1) :
                               Ok(elements.val[k + 1].vals)
                                   = TupleAtSlot(ArrayHead(result.val, j, type_strs[j]), k,
                                                 is_tuple(type_strs[j]).val[2])

\* the bytes above the low 8 of the word at byte index at of b
UpperBytes(b, at) == SubSeq(b, at + 1, at + SlotSize - 8)

\* b with those bytes set to 0
Lowered(b, at) == [p \in 1..Len(b) |-> IF p > at /\ p <= at + SlotSize - 8 THEN 0 ELSE b[p]]

\* the byte indices in b of the offset words of the head and of the length
\* words of the strings, bytes and dynamic arrays the offsets lead to,
\* those of them that are 2^64 or more
LargeWords(ts, b) ==
    {HeadAt(k) : k \in {j \in 1..Len(ts) : is_dynamic(ts[j])}}
        \cup {OffsetOf(b, k) : k \in {j \in 1..Len(ts) :
                  /\ is_dynamic(ts[j])
                  /\ ts[j] \in {"string", "bytes"} \/ EndsWith(ts[j], "[]")
                  /\ OffsetOf(b, j) + SlotSize <= Len(b)}}

\* C29: the decoder reads offset words and length words as the full 32-byte
\* numbers: a word of 2^64 or more is never taken for the number in its low
\* 8 bytes, so two buffers that differ only in the upper 24 bytes of such a
\* word do not decode to the same values.
C29_FullWords ==
    (op = "abi_decode" /\ Len(result.val) >= SlotSize * Len(type_strs))
        => \A at \in LargeWords(type_strs, result.val) :
              (/\ \E p \in 1..Len(UpperBytes(result.val, at)) : UpperBytes(result.val, at)[p] # 0
               /\ decoded.ok)
                  => decoded # abi_decode(type_strs, Lowered(result.val, at))

\* the shape of v disagrees with the kind of t: a Group for an elementary
\* type, a leaf for an array type
ShapeFault(t, v) ==
    \/ t \in ScalarNames /\ ~v.single
    \/ is_array(t).ok /\ is_array(t).val[1] /\ v.single

\* C30: abi_encode rejects with InvalidTypeAndValue every value whose shape
\* disagrees with the kind of its type: an elementary type with a Group, be
\* it a Group of one leaf of that type, and an array type with a bare leaf.
C30_ShapeMismatch ==
    (/\ op = "abi_encode"
     /\ result # NoRet
     /\ Len(type_strs) = Len(values)
     /\ \E k \in 1..Len(type_strs) : ShapeFault(type_strs[k], values[k]))
        => ~result.ok /\ result.err = "InvalidTypeAndValue"

====
